---- MODULE Spec2Model ----
(***************************************************************************)
(* Model of porcupine's handle wrappers: Window / WeakWindow and the       *)
(* per-window user-data payload (src/window.rs), DeviceContext (src/dc.rs) *)
(* and Bitmap (src/bitmap.rs), Pen and Brush (src/draw.rs), the wide       *)
(* strings (src/string.rs) and the error constructor (src/error.rs), over  *)
(* a nondeterministic native layer.                                        *)
(*                                                                         *)
(* Every native handle is a positive token, NULL is 0.  The wrapper with   *)
(* index i holds the token i of its handle type.  Each action is one       *)
(* public operation (or one Drop) run to completion; `trace` is the list   *)
(* of foreign calls the operation made, `last` is what it returned.  A     *)
(* panic unwinds out of the operation and is recorded as its outcome.      *)
(***************************************************************************)
EXTENDS Integers, Sequences, FiniteSets, TLC

\* ---------------------------------------------------------------- bounds
MaxWin == 1
MaxDC == 3
MaxBitmap == 1
MaxPayload == 2
MaxPen == 1
MaxBrush == 1
MaxDim == 2
MaxLen == 2
MaxThread == 2

Wins == 1..MaxWin
DCs == 1..MaxDC
Bitmaps == 1..MaxBitmap
Payloads == 1..MaxPayload
Pens == 1..MaxPen
Brushes == 1..MaxBrush
\* Bitmap sizes: <<width, height>>.
Dims == {<<n, MaxDim + 1 - n>> : n \in 1..MaxDim}

\* UTF-16 code units strings are made of: the null, 'A', and the surrogate
\* pair of U+1F600.
Units == {0, 65, 55357, 56832}
\* Unicode scalar values Rust strings are made of: U+0000, 'A', U+1F600.
Scalars == {0, 65, 128512}

\* Rust types a payload box can have; "unit" is ().
Types == {"unit", "i32", "String"}

NULL == 0
\* The default 1x1 bitmap the platform selects into every new memory DC.
StockBitmap == MaxBitmap + 1
\* Pens and brushes are GDI objects too: their tokens follow the bitmaps'.
hpen(i) == StockBitmap + i
hbrush(j) == StockBitmap + MaxPen + j

\* The locks around handles: the hdc field and the old_object of every
\* DeviceContext, the hbitmap of every Bitmap, the hwnd of every Window.
HandleSlots ==
    ({"hdc", "old_object"} \X DCs) \cup ({"hbitmap"} \X Bitmaps)
        \cup ({"hwnd"} \X Wins)

None == [some |-> FALSE, v |-> 0]
Some(x) == [some |-> TRUE, v |-> x]

VARIABLES
    win,        \* Window wrappers:   [st, has_user_data]
    userdata,   \* platform: the GWLP_USERDATA slot of each window handle
    weaks,      \* windows the program holds a free-standing WeakWindow to
    pay,        \* heap boxes handed to set_user_data_box: [st, ty, dtor, w]
    dc,         \* DeviceContext wrappers
    selected,   \* platform: the bitmap selected into each DC handle
    dcDeleted,  \* platform: DeleteDC calls received per DC handle
    bm,         \* Bitmap wrappers: [st, owning_dc, bm]
    hbm,        \* platform: bitmap handles [created, deleted, size, dims]
    pen,        \* Pen wrappers: [st]
    brush,      \* Brush wrappers: [st]
    gdiDeleted, \* platform: DeleteObject calls received per pen/brush handle
    wstr,       \* the wide string the program holds: [kind, inner]
    origin,     \* the &str the held wide string was converted from, if any
    sres,       \* outcome of the last string operation
    werr,       \* the last call of crate::win32_error: [function, code, text, e]
    wclass,     \* the OwnedWindowClass of the scenario: [st, is_registered]
    cname,      \* its class_name field (a name token, 0 before new)
    atoms,      \* platform: the class names registered for the module
    module_info, \* the MODULE_INFO static: [once, by, handle, runs, lock]
    thr,        \* each thread: [stack of [op, pc] frames, seen handle]
    poison,     \* whether the lock of each bitmap's handle slot is poisoned
    dcColor,    \* platform: the DC pen and DC brush colour of each DC handle
    dropless,   \* window handles the program holds a DroplessWindow of
    slot,       \* handle-slot locks: [held: lock -> thread or 0, run: thread -> steps left]
    last,       \* outcome of the last operation
    trace       \* foreign calls made by the last operation, in order

winVars == <<win, userdata, weaks, pay>>
dcVars == <<dc, selected, dcDeleted>>
bmVars == <<bm, hbm>>
drawVars == <<pen, brush, gdiDeleted>>
\* The state outside windows, device contexts and bitmaps.
strVars == <<wstr, origin, sres>>
errVars == <<werr>>
clsVars == <<wclass, cname, atoms>>
\* The module handle and its threads, lock poisoning, DC colours.
lateVars == <<module_info, thr, poison, dcColor, dropless, slot>>
restVars == <<drawVars, strVars, errVars, clsVars, lateVars>>
vars == <<win, userdata, weaks, pay, dc, selected, dcDeleted, bm, hbm,
          pen, brush, gdiDeleted, wstr, origin, sres, werr, wclass, cname, atoms,
          module_info, thr, poison, dcColor, dropless, slot, last, trace>>

\* ------------------------------------------------------------- outcomes
Call(f, h, a) == [f |-> f, h |-> h, a |-> a]

Outcome(op, obj, res, err, fn, val, ty) ==
    [op |-> op, obj |-> obj, res |-> res, err |-> err, fn |-> fn,
     val |-> val, ty |-> ty]

Ok(op, obj, val, ty) == Outcome(op, obj, "Ok", "", "", val, ty)
Err(op, obj, err) == Outcome(op, obj, "Err", err, "", 0, "")
Panic(op, obj, msg) == Outcome(op, obj, "Panic", msg, "", 0, "")
Unit(op, obj) == Outcome(op, obj, "Unit", "", "", 0, "")

\* ================================ WString / WStr functions (string.rs)

\* A wide string value held by the program: kind "none" when it holds none.
NoString == [kind |-> "none", inner |-> <<>>]
WStringOf(v) == [kind |-> "WString", inner |-> v]
WStrOf(v) == [kind |-> "WStr", inner |-> v]

\* Outcome of a string operation: `arg` its input, `out` the code units or
\* scalar values it produced.
StrOk(op, arg, out) ==
    [op |-> op, arg |-> arg, res |-> "Ok", err |-> "", out |-> out]
StrErr(op, arg, err) ==
    [op |-> op, arg |-> arg, res |-> "Err", err |-> err, out |-> <<>>]
StrPanic(op, arg) ==
    [op |-> op, arg |-> arg, res |-> "Panic", err |-> "index out of range",
     out |-> <<>>]

\* vec.iter().rev().any(|x| *x == 0)
any_zero(v) == \E i \in DOMAIN v : v[i] = 0

\* WString::from_vec_unchecked: push(0)
from_vec_unchecked(v) == Append(v, 0)

\* Variant of WString_new that looks for the null in the last place only.
WString_new_last_only(v) ==
    IF Len(v) > 0 /\ v[Len(v)] = 0 THEN [ok |-> FALSE, inner |-> <<>>]
    ELSE [ok |-> TRUE, inner |-> from_vec_unchecked(v)]

\* WString::new
WString_new(v) ==
    IF any_zero(v) THEN [ok |-> FALSE, inner |-> <<>>]
    ELSE [ok |-> TRUE, inner |-> from_vec_unchecked(v)]

\* WString::buffer(len): len spaces
buffer(len) == from_vec_unchecked([i \in 1..len |-> 32])

\* wide_strlen over memory that holds a null somewhere
wide_strlen(mem) ==
    (CHOOSE i \in DOMAIN mem : mem[i] = 0 /\ \A j \in 1..(i - 1) : mem[j] # 0) - 1

\* WStr::from_ptr: the slice of wide_strlen units
from_ptr(mem) == SubSeq(mem, 1, wide_strlen(mem))

\* <&WStr as Default>::default
WStr_default == from_ptr(<<0>>)

\* WStr::to_owned: inner = to_bytes().into()
to_owned(bytes) == bytes

\* <WString as Default>::default
WString_default == to_owned(WStr_default)

\* WStr::from_bytes
WStr_from_bytes(bytes) ==
    IF any_zero(bytes) THEN [ok |-> FALSE, inner |-> <<>>]
    ELSE [ok |-> TRUE, inner |-> bytes]

\* Whether &bytes[..bytes.len() - 1] is out of range.
no_nul_panics(bytes) == Len(bytes) = 0

\* Variant of to_bytes_no_nul that keeps the last unit.
to_bytes_no_nul_keeps_last(bytes) == bytes

\* WStr::to_bytes_no_nul / WString::as_bytes_no_nul (when it does not panic)
to_bytes_no_nul(bytes) == SubSeq(bytes, 1, Len(bytes) - 1)

\* char::encode_utf16
encode_scalar(c) ==
    IF c < 65536 THEN <<c>>
    ELSE <<55296 + ((c - 65536) \div 1024), 56320 + ((c - 65536) % 1024)>>

\* str::encode_utf16
RECURSIVE encode_utf16(_)
encode_utf16(s) ==
    IF s = <<>> THEN <<>> ELSE encode_scalar(Head(s)) \o encode_utf16(Tail(s))

is_surrogate(u) == 55296 <= u /\ u <= 57343
is_low_surrogate(u) == 56320 <= u /\ u <= 57343

\* char::decode_utf16: one item per decoded unit or pair, -1 for an
\* unpaired surrogate.
RECURSIVE decode_utf16(_)
decode_utf16(v) ==
    IF v = <<>> THEN <<>>
    ELSE LET u == Head(v) IN
         IF ~is_surrogate(u) THEN <<u>> \o decode_utf16(Tail(v))
         ELSE IF is_low_surrogate(u) THEN <<-1>> \o decode_utf16(Tail(v))
         ELSE IF Len(v) >= 2 /\ is_low_surrogate(v[2])
              THEN <<65536 + (u - 55296) * 1024 + (v[2] - 56320)>>
                       \o decode_utf16(Tail(Tail(v)))
              ELSE <<-1>> \o decode_utf16(Tail(v))

\* String::from_utf16
from_utf16(v) ==
    LET d == decode_utf16(v)
    IN IF \E i \in DOMAIN d : d[i] = -1 THEN [ok |-> FALSE, text |-> <<>>]
       ELSE [ok |-> TRUE, text |-> d]

\* String::from_utf16_lossy: U+FFFD for every unpaired surrogate
from_utf16_lossy(v) ==
    LET d == decode_utf16(v)
    IN [i \in DOMAIN d |-> IF d[i] = -1 THEN 65533 ELSE d[i]]

\* WStr::into_string
into_string(op, bytes) ==
    IF no_nul_panics(bytes) THEN StrPanic(op, bytes)
    ELSE IF from_utf16(to_bytes_no_nul(bytes)).ok
         THEN StrOk(op, bytes, from_utf16(to_bytes_no_nul(bytes)).text)
         ELSE StrErr(op, bytes, "Utf16")

\* WStr::into_string_lossy
into_string_lossy(op, bytes) ==
    IF no_nul_panics(bytes) THEN StrPanic(op, bytes)
    ELSE StrOk(op, bytes, from_utf16_lossy(to_bytes_no_nul(bytes)))

\* Sequences over S of length at most n.
SeqsUpTo(S, n) == UNION {[1..k -> S] : k \in 0..n}

\* ================================================== errors (error.rs)
\* Values of GetLastError: 0 (no error) and two error codes.
Codes == {0, 5, 6}
\* Texts FormatMessageW can leave in the buffer; the empty one is its
\* failure (len == 0).
Texts == SeqsUpTo(Units, MaxLen)

\* A message: one of the fixed strings, or text decoded from the platform.
FixedMessage(m) == [fixed |-> m, text |-> <<>>]
Message(text) == [fixed |-> "", text |-> text]

\* Error::Win32 { code, message, function }
Win32(code, message, function) ==
    [kind |-> "Win32", code |-> code, message |-> message,
     function |-> function]
\* The Error variants without fields.
ErrorKind(kind) ==
    [kind |-> kind, code |-> 0, message |-> FixedMessage(""), function |-> ""]

\* The value of crate::win32_error(function) when GetLastError gives `code`
\* and FormatMessageW leaves `text`.
Win32ErrorOf(function, code, text) ==
    IF code = 0 THEN Win32(code, FixedMessage("No error detected"), function)
    ELSE IF Len(text) = 0
    THEN Win32(code, FixedMessage("No error message detected"), function)
    ELSE IF ~WStr_from_bytes(text).ok THEN ErrorKind("WideStringNul")
    ELSE IF from_utf16(to_bytes_no_nul(WStr_from_bytes(text).inner)).ok
    THEN Win32(code,
               Message(from_utf16(
                   to_bytes_no_nul(WStr_from_bytes(text).inner)).text),
               function)
    ELSE ErrorKind("Utf16")

\* The kinds of error crate::win32_error can return, and whether the error
\* carries the function tag.
ErrorShapes ==
    {[kind |-> Win32ErrorOf("f", c, t).kind,
      tagged |-> Win32ErrorOf("f", c, t).function # ""] :
        c \in Codes, t \in Texts}

\* The outcomes of an operation that returns Err(crate::win32_error(fn)).
win32_error(op, obj, fn) ==
    {Outcome(op, obj, "Err", e.kind, IF e.tagged THEN fn ELSE "", 0, "") :
        e \in ErrorShapes}

\* Lowest unused index of a wrapper table (indices are never reused).
FreeIds(tab) == {i \in DOMAIN tab : tab[i].st = "free"}
Fresh(tab) == CHOOSE i \in FreeIds(tab) : \A j \in FreeIds(tab) : i <= j

\* ------------------------------------------------------- Arc / Weak
\* Weak::upgrade on the Arc of Window w: Some iff the Window (the only
\* strong owner of that Arc) has not been dropped.
upgrade(w) == IF win[w].st = "live" THEN Some(w) ELSE None

\* No &str behind the held wide string.
NoOrigin == [some |-> FALSE, v |-> <<>>]

\* mem::zeroed::<BITMAP>()
zeroed_BITMAP == [bmWidth |-> 0, bmHeight |-> 0]

\* RGB(r, g, b) of wingdi: a COLORREF 0x00bbggrr.
RGB(r, g, b) == r + 256 * g + 65536 * b

\* A device context starts with a black DC pen and a white DC brush.
default_colors == [pen |-> RGB(0, 0, 0), brush |-> RGB(255, 255, 255)]

Init ==
    /\ win = [w \in Wins |-> [st |-> "free", has_user_data |-> FALSE]]
    /\ userdata = [w \in Wins |-> NULL]
    /\ weaks = {}
    /\ pay = [p \in Payloads |-> [st |-> "free", ty |-> "unit", dtor |-> 0,
                                  w |-> 0]]
    /\ dc = [d \in DCs |-> [st |-> "free", kind |-> "Painter", owner |-> 0,
                            paint_struct |-> 0, old_object |-> None,
                            storage |-> None, companion |-> 0]]
    /\ selected = [d \in DCs |-> NULL]
    /\ dcDeleted = [d \in DCs |-> 0]
    /\ bm = [b \in Bitmaps |-> [st |-> "free", owning_dc |-> None,
                                bm |-> zeroed_BITMAP]]
    /\ hbm = [b \in Bitmaps |-> [created |-> FALSE, deleted |-> 0,
                                 size |-> <<0, 0>>, dims |-> <<0, 0>>]]
    /\ pen = [i \in Pens |-> [st |-> "free"]]
    /\ brush = [j \in Brushes |-> [st |-> "free"]]
    /\ gdiDeleted = [h \in {hpen(i) : i \in Pens} \cup
                           {hbrush(j) : j \in Brushes} |-> 0]
    /\ wstr = [kind |-> "none", inner |-> <<>>]
    /\ origin = NoOrigin
    /\ sres = [op |-> "init", arg |-> <<>>, res |-> "Ok", err |-> "", out |-> <<>>]
    /\ werr = [function |-> "", code |-> 0, text |-> <<>>, e |-> ErrorKind("")]
    /\ wclass = [st |-> "none", is_registered |-> FALSE]
    /\ cname = 0
    /\ atoms = {}
    /\ module_info = [once |-> "incomplete", by |-> 0, handle |-> NULL,
                      runs |-> 0, lock |-> 0]
    /\ thr = [t \in 1..MaxThread |-> [stack |-> <<>>, seen |-> NULL]]
    /\ poison = [b \in Bitmaps |-> FALSE]
    /\ dcColor = [d \in DCs |-> default_colors]
    /\ dropless = {}
    /\ slot = [held |-> [l \in HandleSlots |-> 0],
               run |-> [t \in 1..MaxThread |-> <<>>]]
    /\ last = Unit("init", 0)
    /\ trace = <<>>

\* ====================================================== native platform
\* The platform's bookkeeping follows from the foreign calls it receives.
Count(tr, f, h) == Cardinality({i \in DOMAIN tr : tr[i].f = f /\ tr[i].h = h})

\* Index of the last call f on handle h in tr, 0 if there is none.
LastIndex(tr, f, h) ==
    LET S == {i \in DOMAIN tr : tr[i].f = f /\ tr[i].h = h}
    IN IF S = {} THEN 0 ELSE CHOOSE i \in S : \A j \in S : j <= i

\* DeleteDC / DeleteObject / SelectObject as the platform records them.
PlatformSees(tr) ==
    /\ dcDeleted' = [d \in DCs |-> dcDeleted[d] + Count(tr, "DeleteDC", d)]
    /\ hbm' = [b \in Bitmaps |->
                 [hbm[b] EXCEPT !.deleted = @ + Count(tr, "DeleteObject", b)]]
    /\ selected' = [d \in DCs |->
                      IF LastIndex(tr, "SelectObject", d) = 0 THEN selected[d]
                      ELSE tr[LastIndex(tr, "SelectObject", d)].a]

\* ================================================================ Window

\* Window::with_creation_param / Window::new
WindowNew ==
    /\ FreeIds(win) # {}
    /\ LET w == Fresh(win) IN
       \E created \in BOOLEAN :
          /\ trace' = <<Call("CreateWindowExA", 0, 0)>>
          /\ IF ~created
             THEN /\ last' \in win32_error("Window::new", 0, "CreateWindowExA")
                  /\ UNCHANGED win
             ELSE /\ win' = [win EXCEPT ![w] = [st |-> "live",
                                                 has_user_data |-> FALSE]]
                  /\ last' = Ok("Window::new", w, w, "")
    /\ UNCHANGED <<userdata, weaks, pay, dcVars, bmVars, restVars>>

\* <Window as GenericWindow>::weak_reference
WeakReference(w) ==
    /\ win[w].st = "live"
    /\ weaks' = weaks \cup {w}
    /\ trace' = <<>>
    /\ last' = Unit("Window::weak_reference", w)
    /\ UNCHANGED <<win, userdata, pay, dcVars, bmVars, restVars>>

\* <WeakWindow as GenericWindow>::hwnd on a weak reference to Window w:
\* upgrade().expect(..) and then get_hwnd.
WeakHwnd(w) ==
    /\ w \in weaks
    /\ trace' = <<>>
    /\ last' = IF upgrade(w).some
               THEN Ok("WeakWindow::hwnd", w, upgrade(w).v, "")
               ELSE Panic("WeakWindow::hwnd", w,
                          "Unable to upgrade weak window into strong window.")
    /\ UNCHANGED <<winVars, dcVars, bmVars, restVars>>

\* `ptr as *mut dyn Any` on a `*mut ()`: the fat pointer carries the vtable
\* of the static type of the thin pointer, which is ().
as_dyn_Any(ptr) == [ptr |-> ptr, vtable |-> "unit"]

\* Box<dyn Any>::downcast::<U>: Ok iff the vtable's type_id is U's.
downcast(box, U) == box.vtable = U

\* Dropping a Box<dyn Any>: drop_in_place and dealloc go through the vtable.
\* With the vtable of the box's real type the destructor runs and the box
\* is freed; with the vtable of () nothing runs and nothing is freed.
drop_box(box) ==
    IF box.ptr # NULL /\ box.vtable = pay[box.ptr].ty
    THEN [pay EXCEPT ![box.ptr] = [@ EXCEPT !.st = "freed", !.dtor = @ + 1]]
    ELSE pay

\* Variant of SetUserDataBox that keeps the payload already in the slot:
\* a second box is handed to the platform but does not replace the first.
SetUserDataBox_first_write_wins(w, T) ==
    /\ win[w].st = "live"
    /\ FreeIds(pay) # {}
    /\ LET p == Fresh(pay)
           raw == [pay EXCEPT ![p] = [st |-> "raw", ty |-> T, dtor |-> 0,
                                      w |-> 0]]
       IN /\ trace' = <<Call("SetWindowLongPtrA", w, p)>>
          /\ userdata' = IF userdata[w] = NULL
                         THEN [userdata EXCEPT ![w] = p] ELSE userdata
          /\ last' = Ok("Window::set_user_data_box", w, p, T)
          /\ pay' = [raw EXCEPT ![p].w = w]
          /\ win' = [win EXCEPT ![w].has_user_data = TRUE]
    /\ UNCHANGED <<weaks, dcVars, bmVars, restVars>>

\* Window::set_user_data_box::<T> (with set_user_data_pointer inlined)
SetUserDataBox(w, T) ==
    /\ win[w].st = "live"
    /\ FreeIds(pay) # {}
    /\ LET p == Fresh(pay)
           raw == [pay EXCEPT ![p] = [st |-> "raw", ty |-> T, dtor |-> 0,
                                      w |-> 0]]
       IN \E ok \in BOOLEAN :
          LET ret == IF ok THEN userdata[w] ELSE NULL
              lastError == IF ok THEN 0 ELSE 1
          IN /\ trace' = <<Call("SetWindowLongPtrA", w, p)>>
             /\ userdata' = IF ok THEN [userdata EXCEPT ![w] = p] ELSE userdata
             /\ IF ret = NULL /\ lastError # 0
                THEN /\ last' \in win32_error("Window::set_user_data_box", w,
                                            "SetWindowLongPtrA")
                     /\ pay' = raw
                     /\ UNCHANGED win
                ELSE /\ last' = Ok("Window::set_user_data_box", w, p, T)
                     /\ pay' = [raw EXCEPT ![p].w = w]
                     /\ win' = [win EXCEPT ![w].has_user_data = TRUE]
    /\ UNCHANGED <<weaks, dcVars, bmVars, restVars>>

\* Variant of UserData that empties the slot it reads.
UserData_clears_slot(w, T) ==
    /\ win[w].st = "live"
    /\ trace' = <<Call("GetWindowLongPtrA", w, 0)>>
    /\ last' = Ok("Window::user_data", w, userdata[w], T)
    /\ userdata' = [userdata EXCEPT ![w] = NULL]
    /\ UNCHANGED <<win, weaks, pay, dcVars, bmVars, restVars>>

\* Window::user_data::<T>(&self): the slot's value, when it is not 0, is
\* reinterpreted as *const T without any check and returned as &T.
UserData(w, T) ==
    /\ win[w].st = "live"
    /\ trace' = <<Call("GetWindowLongPtrA", w, 0)>>
    /\ \E ok \in BOOLEAN :
       LET res == IF ok THEN userdata[w] ELSE NULL IN
          IF res = NULL
          THEN last' \in win32_error("Window::user_data", w, "GetWindowLongPtrA")
          ELSE last' = Ok("Window::user_data", w, res, T)
    /\ UNCHANGED <<winVars, dcVars, bmVars, restVars>>

\* Window::take_user_data::<U>
TakeUserData(w, U) ==
    /\ win[w].st = "live"
    /\ \E ok \in BOOLEAN :
       LET res == IF ok THEN userdata[w] ELSE NULL
           lastError == IF ok THEN 0 ELSE 1
           box == as_dyn_Any(res)
       IN /\ trace' = <<Call("SetWindowLongPtrA", w, NULL)>>
          /\ userdata' = IF ok THEN [userdata EXCEPT ![w] = NULL] ELSE userdata
          /\ win' = [win EXCEPT ![w].has_user_data = FALSE]
          /\ IF res = NULL /\ lastError # 0
             THEN /\ last' \in win32_error("Window::take_user_data", w,
                                         "SetWindowLongPtrA")
                  /\ UNCHANGED pay
             ELSE IF downcast(box, U)
             THEN /\ last' = Ok("Window::take_user_data", w, res, U)
                  /\ pay' = IF res # NULL /\ pay[res].ty = U
                            THEN [pay EXCEPT ![res].st = "boxed"]
                            ELSE pay
             ELSE /\ last' = Outcome("Window::take_user_data", w, "Err",
                                     "StaticMsg", "", res, U)
                  /\ pay' = drop_box(box)
    /\ UNCHANGED <<weaks, dcVars, bmVars, restVars>>

\* Foreign calls made by <Window as Drop>::drop.
drop_window_trace(w) ==
    IF win[w].has_user_data
    THEN <<Call("GetWindowLongPtrA", w, 0)>>
    ELSE <<>>

\* <Window as Drop>::drop
DropWindow(w) ==
    /\ win[w].st = "live"
    /\ trace' = drop_window_trace(w)
    /\ pay' = IF win[w].has_user_data
              THEN drop_box(as_dyn_Any(userdata[w]))
              ELSE pay
    /\ win' = [win EXCEPT ![w].st = "dropped"]
    /\ last' = Unit("Window::drop", w)
    /\ UNCHANGED <<userdata, weaks, dcVars, bmVars, restVars>>

\* Variant of DropDropless that runs the drop procedure of Window.
DropDropless_runs_window_drop(w) ==
    /\ w \in dropless
    /\ dropless' = dropless \ {w}
    /\ trace' = drop_window_trace(w)
    /\ pay' = IF win[w].has_user_data
              THEN drop_box(as_dyn_Any(userdata[w]))
              ELSE pay
    /\ win' = [win EXCEPT ![w].st = "dropped"]
    /\ last' = Unit("DroplessWindow::drop", w)
    /\ UNCHANGED <<userdata, weaks, dcVars, bmVars, drawVars, strVars,
                   errVars, clsVars, slot, module_info, thr, poison,
                   dcColor>>

\* Dropping a DroplessWindow: the type has no Drop impl, only its own Arc
\* around the handle is freed.
DropDropless(w) ==
    /\ w \in dropless
    /\ dropless' = dropless \ {w}
    /\ trace' = <<>>
    /\ last' = Unit("DroplessWindow::drop", w)
    /\ UNCHANGED <<winVars, dcVars, bmVars, drawVars, strVars, errVars,
                   clsVars, slot, module_info, thr, poison,
                   dcColor>>

\* DroplessWindow::new(hwnd), for the handle of a window that was created:
\* a new Arc around the raw handle, unrelated to the Arc of the Window.
DroplessNew(w) ==
    /\ win[w].st # "free"
    /\ w \notin dropless
    /\ dropless' = dropless \cup {w}
    /\ trace' = <<>>
    /\ last' = Ok("DroplessWindow::new", w, w, "")
    /\ UNCHANGED <<winVars, dcVars, bmVars, drawVars, strVars, errVars,
                   clsVars, slot, module_info, thr, poison,
                   dcColor>>

\* ========================================================= DeviceContext

\* The PAINTSTRUCT BeginPaint fills in for the session that returned hdc:
\* it is the session's token (its hdc member is that handle).
PAINTSTRUCT(hdc) == hdc

\* DeviceContext::begin_paint(&Window)
BeginPaint(w) ==
    /\ win[w].st = "live"
    /\ FreeIds(dc) # {}
    /\ LET d == Fresh(dc) IN
       \E created \in BOOLEAN :
          /\ trace' = <<Call("BeginPaint", w, 0)>>
          /\ IF ~created
             THEN /\ last' \in win32_error("DeviceContext::begin_paint", 0,
                                         "BeginPaint")
                  /\ UNCHANGED dc
             ELSE /\ dc' = [dc EXCEPT ![d] =
                              [st |-> "live", kind |-> "Painter", owner |-> w,
                               paint_struct |-> PAINTSTRUCT(d),
                               old_object |-> None,
                               storage |-> None, companion |-> 0]]
                  /\ last' = Ok("DeviceContext::begin_paint", d, d, "")
    /\ UNCHANGED <<winVars, selected, dcDeleted, bmVars, restVars>>

\* Variant of compatible_dc that starts Occupied by the stock bitmap.
compatible_dc_occupied(owner_bitmap) ==
    [st |-> "live", kind |-> "OwnsGDIObject", owner |-> 0, paint_struct |-> 0,
     old_object |-> Some(StockBitmap), storage |-> None,
     companion |-> owner_bitmap]

\* The DeviceContext value create_compatible builds for handle d.
compatible_dc(owner_bitmap) ==
    [st |-> "live", kind |-> "OwnsGDIObject", owner |-> 0, paint_struct |-> 0,
     old_object |-> None, storage |-> None, companion |-> owner_bitmap]

\* DeviceContext::create_compatible(&self)
CreateCompatible(src) ==
    /\ dc[src].st = "live"
    /\ FreeIds(dc) # {}
    /\ LET d == Fresh(dc) IN
       \E created \in BOOLEAN :
          /\ trace' = <<Call("CreateCompatibleDC", src, 0)>>
          /\ IF ~created
             THEN /\ last' \in win32_error("DeviceContext::create_compatible", 0,
                                         "CreateCompatibleDC")
                  /\ UNCHANGED <<dc, selected>>
             ELSE /\ dc' = [dc EXCEPT ![d] = compatible_dc(0)]
                  /\ selected' = [selected EXCEPT ![d] = StockBitmap]
                  /\ last' = Ok("DeviceContext::create_compatible", d, d, "")
    /\ UNCHANGED <<winVars, dcDeleted, bmVars, restVars>>

\* Variant of set_bitmap_refusal without the occupied check: a second
\* selection silently replaces the first.
set_bitmap_refusal_silent_replace(k) ==
    IF k.kind = "Painter" THEN "NoGDIStorage" ELSE ""

\* The early returns of DeviceContext::set_bitmap: the error it returns
\* before touching anything, "" when it goes on to SelectObject.
set_bitmap_refusal(k) ==
    IF k.kind = "Painter" THEN "NoGDIStorage"
    ELSE IF k.old_object.some \/ k.storage.some THEN "AlreadyHadGDIStorage"
    ELSE ""

\* What SelectObject(hdc, hbitmap) returns: the object it displaced, or
\* NULL when the platform refuses the selection.
SelectObject(d, ok) == IF ok THEN selected[d] ELSE NULL

\* Variant of set_bitmap_kind that records the displaced object only.
set_bitmap_kind_without_storage(k, old_ptr, b) ==
    [k EXCEPT !.old_object = Some(old_ptr)]

\* The kind after a successful set_bitmap: old_object and storage recorded.
set_bitmap_kind(k, old_ptr, b) ==
    [k EXCEPT !.old_object = Some(old_ptr), !.storage = Some(b)]

\* DeviceContext::set_bitmap(&mut self, &Bitmap)
SetBitmap(d, b) ==
    /\ dc[d].st = "live"
    /\ dc[d].companion = 0
    /\ bm[b].st = "live"
    /\ IF set_bitmap_refusal(dc[d]) # ""
       THEN /\ last' = Err("DeviceContext::set_bitmap", d,
                           set_bitmap_refusal(dc[d]))
            /\ trace' = <<>>
            /\ UNCHANGED <<dc, selected>>
       ELSE IF poison[b]
       THEN \* bitmap.hbitmap(): lock().expect(..) on the poisoned lock
            /\ last' = Panic("DeviceContext::set_bitmap", d,
                             "Unable to achieve lock on bitmap")
            /\ trace' = <<>>
            /\ UNCHANGED <<dc, selected>>
       ELSE \E ok \in BOOLEAN :
            /\ trace' = <<Call("SelectObject", d, b)>>
            /\ dc' = [dc EXCEPT ![d] = set_bitmap_kind(@, SelectObject(d, ok), b)]
            /\ selected' = IF ok THEN [selected EXCEPT ![d] = b] ELSE selected
            /\ last' = Ok("DeviceContext::set_bitmap", d, 0, "")
    /\ UNCHANGED <<winVars, dcDeleted, bmVars, restVars>>

\* Variant of SetPen that records the pen in the wrapper's storage.
SetPen_records_storage(d, i) ==
    /\ dc[d].st = "live"
    /\ pen[i].st = "live"
    /\ trace' = <<Call("SelectObject", d, hpen(i))>>
    /\ last' = Unit("DeviceContext::set_pen", d)
    /\ dc' = [dc EXCEPT ![d].old_object = Some(NULL), ![d].storage = Some(0)]
    /\ UNCHANGED <<winVars, selected, dcDeleted, bmVars, restVars>>

\* DeviceContext::set_pen(&self, &Pen): SelectObject, result ignored.
SetPen(d, i) ==
    /\ dc[d].st = "live"
    /\ pen[i].st = "live"
    /\ trace' = <<Call("SelectObject", d, hpen(i))>>
    /\ last' = Unit("DeviceContext::set_pen", d)
    /\ UNCHANGED <<winVars, dcVars, bmVars, restVars>>

\* DeviceContext::set_brush(&self, &Brush): SelectObject, result ignored.
SetBrush(d, j) ==
    /\ dc[d].st = "live"
    /\ brush[j].st = "live"
    /\ trace' = <<Call("SelectObject", d, hbrush(j))>>
    /\ last' = Unit("DeviceContext::set_brush", d)
    /\ UNCHANGED <<winVars, dcVars, bmVars, restVars>>

\* DeviceContext::copy_from(&self, source, rect, pt, op): BitBlt
CopyFrom(d, source) ==
    /\ dc[d].st = "live"
    /\ dc[source].st = "live"
    /\ trace' = <<Call("BitBlt", d, source)>>
    /\ \E copied \in BOOLEAN :
          IF copied THEN last' = Ok("DeviceContext::copy_from", d, 0, "")
          ELSE last' \in win32_error("DeviceContext::copy_from", d, "BitBlt")
    /\ UNCHANGED <<winVars, dcVars, bmVars, restVars>>

\* DeviceContext::set_brush_color(r, g, b): SetDCBrushColor replaces the
\* colour of the DC brush, or returns CLR_INVALID and changes nothing.
SetBrushColor(d, r, g, b) ==
    /\ dc[d].st = "live"
    /\ LET clr == RGB(r, g, b) IN
       /\ trace' = <<Call("SetDCBrushColor", d, clr)>>
       /\ \E set \in BOOLEAN :
             IF set
             THEN /\ dcColor' = [dcColor EXCEPT ![d].brush = clr]
                  /\ last' = Ok("DeviceContext::set_brush_color", d, clr, "")
             ELSE /\ UNCHANGED dcColor
                  /\ last' \in win32_error("DeviceContext::set_brush_color", d,
                                           "SetDCBrushColor")
    /\ UNCHANGED <<winVars, dcVars, bmVars, drawVars, strVars, errVars,
                   clsVars, dropless, slot, module_info, thr, poison>>

\* DeviceContext::set_pen_color(r, g, b): the native call it makes is
\* SetDCBrushColor, the tag of its error is SetDCPenColor.
SetPenColor(d, r, g, b) ==
    /\ dc[d].st = "live"
    /\ LET clr == RGB(r, g, b) IN
       /\ trace' = <<Call("SetDCBrushColor", d, clr)>>
       /\ \E set \in BOOLEAN :
             IF set
             THEN /\ dcColor' = [dcColor EXCEPT ![d].brush = clr]
                  /\ last' = Ok("DeviceContext::set_pen_color", d, clr, "")
             ELSE /\ UNCHANGED dcColor
                  /\ last' \in win32_error("DeviceContext::set_pen_color", d,
                                           "SetDCPenColor")
    /\ UNCHANGED <<winVars, dcVars, bmVars, drawVars, strVars, errVars,
                   clsVars, dropless, slot, module_info, thr, poison>>

\* Variant of drop_dc_trace that ends the paint session without upgrading
\* the weak owner first.
drop_dc_trace_no_upgrade(d) ==
    IF dc[d].kind = "Painter"
    THEN <<Call("EndPaint", dc[d].owner, dc[d].paint_struct)>>
    ELSE (IF dc[d].old_object.some
          THEN <<Call("SelectObject", d, dc[d].old_object.v)>>
          ELSE <<>>)
         \o <<Call("DeleteDC", d, 0)>>

\* Variant of drop_dc_trace that deletes a Compatible DC without restoring
\* its old object first.
drop_dc_trace_no_restore(d) ==
    IF dc[d].kind = "Painter"
    THEN IF upgrade(dc[d].owner).some
         THEN <<Call("EndPaint", upgrade(dc[d].owner).v, dc[d].paint_struct)>>
         ELSE <<>>
    ELSE <<Call("DeleteDC", d, 0)>>

\* Foreign calls made by <DeviceContext as Drop>::drop, in order.
drop_dc_trace(d) ==
    IF dc[d].kind = "Painter"
    THEN IF upgrade(dc[d].owner).some
         THEN <<Call("EndPaint", upgrade(dc[d].owner).v, dc[d].paint_struct)>>
         ELSE <<>>
    ELSE (IF dc[d].old_object.some
          THEN <<Call("SelectObject", d, dc[d].old_object.v)>>
          ELSE <<>>)
         \o <<Call("DeleteDC", d, 0)>>

\* <DeviceContext as Drop>::drop of a DC the caller owns
DropDC(d) ==
    /\ dc[d].st = "live"
    /\ dc[d].companion = 0
    /\ trace' = drop_dc_trace(d)
    /\ PlatformSees(drop_dc_trace(d))
    /\ dc' = [dc EXCEPT ![d].st = "dropped"]
    /\ last' = Unit("DeviceContext::drop", d)
    /\ UNCHANGED <<winVars, bm, restVars>>

\* ================================================================ Bitmap

\* Variant of strong_count in which a device context's storage is a
\* strong reference to the handle slot.
strong_count_storage_owns(b) ==
    (IF bm[b].st = "live" THEN 1 ELSE 0)
        + Cardinality({d \in DCs : dc[d].st = "live" /\ dc[d].storage = Some(b)})

\* Strong owners of the Arc around bitmap b's handle slot: the Bitmap's
\* hbitmap field; DeviceContextStorage::Bitmap holds a Weak and adds none.
\* Weak::upgrade on the slot gives Some iff the count is not 0.
strong_count(b) == IF bm[b].st = "live" THEN 1 ELSE 0

\* Variant of drop_bitmap_trace that deletes the bitmap handle before the
\* companion DC is dropped (the field order of the struct).
drop_bitmap_trace_handle_first(b) ==
    <<Call("DeleteObject", b, 0)>> \o drop_dc_trace(bm[b].owning_dc.v)

\* Variant of drop_bitmap_trace that deletes the handle without looking at
\* the result of lock().
drop_bitmap_trace_ignores_poison(b) ==
    drop_dc_trace(bm[b].owning_dc.v) \o <<Call("DeleteObject", b, 0)>>

\* Foreign calls made by <Bitmap as Drop>::drop once owning_dc was taken:
\* the companion DC's drop, then DeleteObject under the handle's lock,
\* skipped when lock() returns Err because the lock is poisoned.
drop_bitmap_trace(b) ==
    drop_dc_trace(bm[b].owning_dc.v)
        \o (IF poison[b] THEN <<>> ELSE <<Call("DeleteObject", b, 0)>>)

\* <Bitmap as Drop>::drop: owning_dc.take().expect(OWNING_DC_NONE) first.
bitmap_drop_panics(owning_dc) == ~owning_dc.some

\* <Bitmap as Drop>::drop of a Bitmap the caller owns
DropBitmap(b) ==
    /\ bm[b].st = "live"
    /\ IF bitmap_drop_panics(bm[b].owning_dc)
       THEN /\ trace' = <<>>
            /\ last' = Panic("Bitmap::drop", b, "Owning DC was not properly set")
            /\ UNCHANGED <<dc, selected, dcDeleted, hbm>>
       ELSE /\ trace' = drop_bitmap_trace(b)
            /\ PlatformSees(drop_bitmap_trace(b))
            /\ dc' = [dc EXCEPT ![bm[b].owning_dc.v].st = "dropped"]
            /\ last' = Unit("Bitmap::drop", b)
    /\ bm' = [bm EXCEPT ![b].st = "dropped", ![b].owning_dc = None]
    /\ UNCHANGED <<winVars, restVars>>

\* A caller upgrades Bitmap::weak_reference(), locks the handle slot and
\* panics while it holds the guard: the std Mutex is poisoned from then on.
PoisonLock(b) ==
    /\ bm[b].st = "live"
    /\ strong_count(b) > 0
    /\ poison' = [poison EXCEPT ![b] = TRUE]
    /\ trace' = <<>>
    /\ last' = Panic("Bitmap::weak_reference", b, "panic of the lock holder")
    /\ UNCHANGED <<winVars, dcVars, bmVars, drawVars, strVars, errVars,
                   clsVars, dropless, slot, module_info, thr, dcColor>>

\* The BITMAP that GetObjectW fills in for a handle: the platform's own
\* dimensions of the object.
GetObjectW(b, reported) == [bmWidth |-> reported[1], bmHeight |-> reported[2]]

\* Variant of from_dc_and_data_bm that keeps the caller's size argument.
from_dc_and_data_bm_trusts_size(size, filled) ==
    [bmWidth |-> size[1], bmHeight |-> size[2]]

\* The `bm` field from_dc_and_data stores: the BITMAP GetObjectW filled.
from_dc_and_data_bm(size, filled) == filled

\* Bitmap::width / Bitmap::height
width(b) == bm[b].bm.bmWidth
height(b) == bm[b].bm.bmHeight

\* Bitmap::from_dc_and_data(dc, size, data); `reported` are the dimensions
\* the platform gives the new object.
FromDcAndData(src, size, reported) ==
    /\ dc[src].st = "live"
    /\ FreeIds(bm) # {}
    /\ FreeIds(dc) # {}
    /\ LET b == Fresh(bm)
           d == Fresh(dc)
           c1 == <<Call("CreateBitmap", 0, 0)>>
           c2 == c1 \o <<Call("GetObjectW", b, 0)>>
           c3 == c2 \o <<Call("CreateCompatibleDC", src, 0)>>
           c4 == c3 \o <<Call("SelectObject", d, b)>>
           op == "Bitmap::from_dc_and_data"
       IN \E succeeded \in 0..4 :
          \* the native calls succeed in order until one of them fails
          LET created == succeeded >= 1
              got == succeeded >= 2
              dc_created == succeeded >= 3
              sel == succeeded >= 4
          IN
          IF ~created
          THEN \* CreateBitmap returned NULL
               /\ trace' = c1
               /\ last' \in win32_error(op, 0, "CreateBitmap")
               /\ UNCHANGED <<dcVars, bmVars>>
          ELSE IF ~got
          THEN \* GetObjectW returned 0: early return, no Bitmap value yet
               /\ trace' = c2
               /\ last' \in win32_error(op, b, "GetObjectW")
               /\ hbm' = [hbm EXCEPT ![b].created = TRUE, ![b].size = size,
                                     ![b].dims = reported]
               /\ bm' = [bm EXCEPT ![b].st = "unwrapped"]
               /\ UNCHANGED dcVars
          ELSE IF ~dc_created
          THEN \* create_compatible()? returns: b is dropped, owning_dc None
               /\ trace' = c3
               /\ last' \in IF bitmap_drop_panics(None)
                            THEN {Panic(op, b, "Owning DC was not properly set")}
                            ELSE win32_error(op, b, "CreateCompatibleDC")
               /\ hbm' = [hbm EXCEPT ![b].created = TRUE, ![b].size = size,
                                     ![b].dims = reported]
               /\ bm' = [bm EXCEPT ![b].st = "dropped"]
               /\ UNCHANGED dcVars
          ELSE \* owning_dc.set_bitmap(&b) on the new, Empty DC
               /\ trace' = c4
               /\ last' = Ok(op, b, b, "")
               /\ hbm' = [hbm EXCEPT ![b].created = TRUE, ![b].size = size,
                                     ![b].dims = reported]
               /\ bm' = [bm EXCEPT ![b] =
                           [st |-> "live", owning_dc |-> Some(d),
                            bm |-> from_dc_and_data_bm(
                                       size, GetObjectW(b, reported))]]
               /\ dc' = [dc EXCEPT ![d] =
                           set_bitmap_kind(compatible_dc(b),
                                           IF sel THEN StockBitmap ELSE NULL, b)]
               /\ selected' = [selected EXCEPT ![d] = IF sel THEN b ELSE StockBitmap]
               /\ UNCHANGED dcDeleted
    /\ UNCHANGED <<winVars, restVars>>

\* ======================================================== Pen and Brush

\* Pen::new(r, g, b, width, style)
PenNew ==
    /\ FreeIds(pen) # {}
    /\ LET i == Fresh(pen) IN
       \E created \in BOOLEAN :
          /\ trace' = <<Call("CreatePen", 0, 0)>>
          /\ IF ~created
             THEN /\ last' \in win32_error("Pen::new", 0, "CreatePen")
                  /\ UNCHANGED pen
             ELSE /\ pen' = [pen EXCEPT ![i].st = "live"]
                  /\ last' = Ok("Pen::new", i, hpen(i), "")
    /\ UNCHANGED <<winVars, dcVars, bmVars, brush, gdiDeleted, strVars, errVars, clsVars, lateVars>>

\* Brush::solid(r, g, b)
BrushSolid ==
    /\ FreeIds(brush) # {}
    /\ LET j == Fresh(brush) IN
       \E created \in BOOLEAN :
          /\ trace' = <<Call("CreateSolidBrush", 0, 0)>>
          /\ IF ~created
             THEN /\ last' \in win32_error("Brush::solid", 0, "CreateBrush")
                  /\ UNCHANGED brush
             ELSE /\ brush' = [brush EXCEPT ![j].st = "live"]
                  /\ last' = Ok("Brush::solid", j, hbrush(j), "")
    /\ UNCHANGED <<winVars, dcVars, bmVars, pen, gdiDeleted, strVars, errVars, clsVars, lateVars>>

\* Variant of drop_gdiobj_trace that releases nothing.
drop_gdiobj_trace_leak(h) == <<>>

\* Foreign calls made by <Pen as Drop>::drop and <Brush as Drop>::drop on
\* the handle in the wrapper's slot.
drop_gdiobj_trace(h) == <<Call("DeleteObject", h, 0)>>

\* <Pen as Drop>::drop
DropPen(i) ==
    /\ pen[i].st = "live"
    /\ trace' = drop_gdiobj_trace(hpen(i))
    /\ gdiDeleted' = [gdiDeleted EXCEPT ![hpen(i)] =
                         @ + Count(drop_gdiobj_trace(hpen(i)), "DeleteObject",
                                   hpen(i))]
    /\ pen' = [pen EXCEPT ![i].st = "dropped"]
    /\ last' = Unit("Pen::drop", i)
    /\ UNCHANGED <<winVars, dcVars, bmVars, brush, strVars, errVars, clsVars, lateVars>>

\* <Brush as Drop>::drop
DropBrush(j) ==
    /\ brush[j].st = "live"
    /\ trace' = drop_gdiobj_trace(hbrush(j))
    /\ gdiDeleted' = [gdiDeleted EXCEPT ![hbrush(j)] =
                         @ + Count(drop_gdiobj_trace(hbrush(j)), "DeleteObject",
                                   hbrush(j))]
    /\ brush' = [brush EXCEPT ![j].st = "dropped"]
    /\ last' = Unit("Brush::drop", j)
    /\ UNCHANGED <<winVars, dcVars, bmVars, pen, strVars, errVars, clsVars, lateVars>>

\* ============================================ WString / WStr operations

\* WString::new(units)
WStringNew(units) ==
    /\ sres' = IF WString_new(units).ok
               THEN StrOk("WString::new", units, WString_new(units).inner)
               ELSE StrErr("WString::new", units, "WideStringNul")
    /\ wstr' = IF WString_new(units).ok
               THEN WStringOf(WString_new(units).inner) ELSE NoString
    /\ origin' = NoOrigin
    /\ UNCHANGED <<winVars, dcVars, bmVars, drawVars, errVars, clsVars, lateVars, last, trace>>

\* <WString as TryFrom<&str>>::try_from(s)
WStringTryFrom(s) ==
    /\ LET units == encode_utf16(s) IN
       /\ sres' = IF WString_new(units).ok
                  THEN StrOk("WString::try_from", s, WString_new(units).inner)
                  ELSE StrErr("WString::try_from", s, "WideStringNul")
       /\ wstr' = IF WString_new(units).ok
                  THEN WStringOf(WString_new(units).inner) ELSE NoString
       /\ origin' = IF WString_new(units).ok THEN [some |-> TRUE, v |-> s]
                    ELSE NoOrigin
    /\ UNCHANGED <<winVars, dcVars, bmVars, drawVars, errVars, clsVars, lateVars, last, trace>>

\* WString::buffer(len)
WStringBuffer(len) ==
    /\ sres' = StrOk("WString::buffer", <<len>>, buffer(len))
    /\ wstr' = WStringOf(buffer(len))
    /\ origin' = NoOrigin
    /\ UNCHANGED <<winVars, dcVars, bmVars, drawVars, errVars, clsVars, lateVars, last, trace>>

\* <WString as Default>::default()
WStringDefault ==
    /\ sres' = StrOk("WString::default", <<>>, WString_default)
    /\ wstr' = WStringOf(WString_default)
    /\ origin' = NoOrigin
    /\ UNCHANGED <<winVars, dcVars, bmVars, drawVars, errVars, clsVars, lateVars, last, trace>>

\* <&WStr as Default>::default()
WStrDefault ==
    /\ sres' = StrOk("WStr::default", <<>>, WStr_default)
    /\ wstr' = WStrOf(WStr_default)
    /\ origin' = NoOrigin
    /\ UNCHANGED <<winVars, dcVars, bmVars, drawVars, errVars, clsVars, lateVars, last, trace>>

\* WStr::from_bytes(bytes)
WStrFromBytes(bytes) ==
    /\ sres' = IF WStr_from_bytes(bytes).ok
               THEN StrOk("WStr::from_bytes", bytes, WStr_from_bytes(bytes).inner)
               ELSE StrErr("WStr::from_bytes", bytes, "WideStringNul")
    /\ wstr' = IF WStr_from_bytes(bytes).ok
               THEN WStrOf(WStr_from_bytes(bytes).inner) ELSE NoString
    /\ origin' = NoOrigin
    /\ UNCHANGED <<winVars, dcVars, bmVars, drawVars, errVars, clsVars, lateVars, last, trace>>

\* <WString as Deref>::deref: the view over as_bytes()
Deref ==
    /\ wstr.kind = "WString"
    /\ sres' = StrOk("WString::deref", wstr.inner, wstr.inner)
    /\ wstr' = WStrOf(wstr.inner)
    /\ UNCHANGED origin
    /\ UNCHANGED <<winVars, dcVars, bmVars, drawVars, errVars, clsVars, lateVars, last, trace>>

\* <WStr as ToOwned>::to_owned
ToOwned ==
    /\ wstr.kind = "WStr"
    /\ sres' = StrOk("WStr::to_owned", wstr.inner, to_owned(wstr.inner))
    /\ wstr' = WStringOf(to_owned(wstr.inner))
    /\ UNCHANGED origin
    /\ UNCHANGED <<winVars, dcVars, bmVars, drawVars, errVars, clsVars, lateVars, last, trace>>

\* WStr::to_bytes_no_nul / WString::as_bytes_no_nul on the held string
ToBytesNoNul ==
    /\ wstr.kind # "none"
    /\ sres' = IF no_nul_panics(wstr.inner)
               THEN StrPanic("to_bytes_no_nul", wstr.inner)
               ELSE StrOk("to_bytes_no_nul", wstr.inner,
                          to_bytes_no_nul(wstr.inner))
    /\ UNCHANGED <<wstr, origin>>
    /\ UNCHANGED <<winVars, dcVars, bmVars, drawVars, errVars, clsVars, lateVars, last, trace>>

\* WStr::into_string on the held string (through Deref for a WString)
IntoString ==
    /\ wstr.kind # "none"
    /\ sres' = into_string("WStr::into_string", wstr.inner)
    /\ UNCHANGED <<wstr, origin>>
    /\ UNCHANGED <<winVars, dcVars, bmVars, drawVars, errVars, clsVars, lateVars, last, trace>>

\* WStr::into_string_lossy on the held string
IntoStringLossy ==
    /\ wstr.kind # "none"
    /\ sres' = into_string_lossy("WStr::into_string_lossy", wstr.inner)
    /\ UNCHANGED <<wstr, origin>>
    /\ UNCHANGED <<winVars, dcVars, bmVars, drawVars, errVars, clsVars, lateVars, last, trace>>

\* WString::from_raw(w.into_raw()) on the held string: into_raw hands out
\* the address of the buffer, from_raw takes the wide_strlen units found
\* there.  A buffer that holds no null is read past its end, where the
\* units found are whatever the memory holds (none once the string is
\* longer than MaxLen, which keeps the strings bounded).
FromRawIntoRaw ==
    /\ wstr.kind = "WString"
    /\ \E beyond \in SeqsUpTo(Units \ {0}, IF Len(wstr.inner) <= MaxLen THEN 1 ELSE 0) :
          LET mem == IF any_zero(wstr.inner) THEN wstr.inner
                     ELSE wstr.inner \o beyond \o <<0>>
          IN /\ sres' = StrOk("WString::from_raw", wstr.inner, from_ptr(mem))
             /\ wstr' = WStringOf(from_ptr(mem))
    /\ origin' = NoOrigin
    /\ UNCHANGED <<winVars, dcVars, bmVars, drawVars, errVars, clsVars, lateVars, last, trace>>

\* Wide strings (src/string.rs).
StrNext ==
    \/ \E units \in SeqsUpTo(Units, MaxLen) : WStringNew(units)
    \/ \E s \in SeqsUpTo(Scalars, MaxLen) : WStringTryFrom(s)
    \/ \E len \in 0..MaxLen : WStringBuffer(len)
    \/ WStringDefault
    \/ WStrDefault
    \/ \E bytes \in SeqsUpTo(Units, MaxLen) : WStrFromBytes(bytes)
    \/ Deref
    \/ ToOwned
    \/ ToBytesNoNul
    \/ IntoString
    \/ IntoStringLossy
    \/ FromRawIntoRaw

StrSpec == Init /\ [][StrNext]_vars

\* crate::win32_error(function), with what the platform answers to
\* GetLastError and FormatMessageW.
Win32ErrorCall(function, code, text) ==
    /\ werr' = [function |-> function, code |-> code, text |-> text,
                e |-> Win32ErrorOf(function, code, text)]
    /\ UNCHANGED <<winVars, dcVars, bmVars, drawVars, strVars, clsVars, lateVars, last, trace>>

\* The error constructor (src/error.rs).
ErrNext ==
    \E function \in {"BeginPaint", "CreateBitmap"}, code \in Codes,
       text \in Texts : Win32ErrorCall(function, code, text)

ErrSpec == Init /\ [][ErrNext]_vars

\* ============================== window class, show, update, draw_line
\* CmdShow values passed to show().
CmdShows == {"Hide", "Show", "ShowDefault"}
\* Points: <<x, y>>.
Points == (0..MaxDim) \X (0..MaxDim)
\* A point as one call argument.
PointArg(p) == p[1] * (MaxDim + 1) + p[2]

\* OwnedWindowClass::new(name); the first use of MODULE_INFO runs
\* ModuleInfo::new().expect(..).
ClassNew(name) ==
    /\ last.op = "init"
    /\ wclass.st = "none"
    /\ \E module_found \in BOOLEAN :
          IF ~module_found
          THEN /\ trace' = <<Call("LoadIconW", 0, 0),
                             Call("GetModuleHandleExA", 0, 0)>>
               /\ last' = Panic("OwnedWindowClass::new", 0,
                                "Unable to create module info")
               /\ UNCHANGED <<wclass, cname>>
          ELSE /\ trace' = <<Call("LoadIconW", 0, 0),
                             Call("GetModuleHandleExA", 0, 0),
                             Call("LoadCursorW", 0, 0)>>
               /\ last' = Unit("OwnedWindowClass::new", 0)
               /\ wclass' = [st |-> "new", is_registered |-> FALSE]
               /\ cname' = name
    /\ UNCHANGED atoms
    /\ UNCHANGED <<winVars, dcVars, bmVars, drawVars, strVars, errVars, lateVars>>

\* OwnedWindowClass::register
\* UnregisterClassA(name, module) can succeed only for a name the platform
\* has registered; RegisterClassExA only for one it has not. Either can
\* also fail for a reason of the platform's own (`accepted` false), such
\* as windows of the class that still exist.
Register ==
    /\ wclass.st = "new"
    /\ LET op == "OwnedWindowClass::register"
           unreg == IF wclass.is_registered
                    THEN <<Call("UnregisterClassA", 0, cname)>> ELSE <<>>
       IN \E accepted \in BOOLEAN, registered \in BOOLEAN :
          LET unregistered == accepted /\ cname \in atoms
              left == IF wclass.is_registered THEN atoms \ {cname} ELSE atoms
          IN
          IF wclass.is_registered /\ ~unregistered
          THEN /\ trace' = unreg
               /\ last' \in win32_error(op, 0, "UnregisterClassA")
               /\ UNCHANGED <<wclass, atoms>>
          ELSE /\ trace' = unreg \o <<Call("RegisterClassExA", 0, cname)>>
               /\ IF registered /\ cname \notin left
                  THEN /\ last' = Ok(op, 0, 0, "")
                       /\ wclass' = [wclass EXCEPT !.is_registered = TRUE]
                       /\ atoms' = left \cup {cname}
                  ELSE /\ last' \in win32_error(op, 0, "RegisterClassExA")
                       /\ wclass' = [wclass EXCEPT !.is_registered = FALSE]
                       /\ atoms' = left
    /\ UNCHANGED cname
    /\ UNCHANGED <<winVars, dcVars, bmVars, drawVars, strVars, errVars, lateVars>>

\* OwnedWindowClass::set_class_name(name)
SetClassName(name) ==
    /\ wclass.st = "new"
    /\ cname' = name
    /\ trace' = <<>>
    /\ last' = Ok("OwnedWindowClass::set_class_name", 0, name, "")
    /\ UNCHANGED <<winVars, dcVars, bmVars, drawVars, strVars, errVars,
                   lateVars, wclass, atoms>>

\* GenericWindow::show(cmd_show)
Show(w, cmd_show) ==
    /\ win[w].st = "live"
    /\ trace' = <<Call("ShowWindow", w, cmd_show)>>
    /\ last' = Unit("Window::show", w)
    /\ UNCHANGED <<winVars, dcVars, bmVars, restVars>>

\* GenericWindow::update
Update(w) ==
    /\ win[w].st = "live"
    /\ trace' = <<Call("UpdateWindow", w, 0)>>
    /\ \E updated \in BOOLEAN :
          IF updated THEN last' = Ok("Window::update", w, 0, "")
          ELSE last' \in win32_error("Window::update", w, "UpdateWindow")
    /\ UNCHANGED <<winVars, dcVars, bmVars, restVars>>

\* DeviceContext::draw_line(p1, p2): move_to(p1)? and then LineTo
DrawLine(d, p1, p2) ==
    /\ dc[d].st = "live"
    /\ LET op == "DeviceContext::draw_line"
           c1 == <<Call("MoveToEx", d, PointArg(p1))>>
           c2 == c1 \o <<Call("LineTo", d, PointArg(p2))>>
       IN \E succeeded \in 0..2 :
          IF succeeded = 0
          THEN trace' = c1 /\ last' \in win32_error(op, d, "MoveToEx")
          ELSE IF succeeded = 1
          THEN trace' = c2 /\ last' \in win32_error(op, d, "LineTo")
          ELSE trace' = c2 /\ last' = Ok(op, d, 0, "")
    /\ UNCHANGED <<winVars, dcVars, bmVars, restVars>>

\* The scenario: each step runs when the step before it returned without
\* an error (`?`); on an error the values created so far are dropped, the
\* device context before the window.
ScnNext ==
    \/ ClassNew(1)
    \/ last.op = "OwnedWindowClass::new" /\ last.res = "Unit" /\ Register
    \/ last.op = "OwnedWindowClass::register" /\ last.res = "Ok" /\ WindowNew
    \/ \E cmd_show \in CmdShows :
          last.op = "Window::new" /\ last.res = "Ok" /\ Show(last.obj, cmd_show)
    \/ last.op = "Window::show" /\ Update(last.obj)
    \/ last.op = "Window::update" /\ last.res = "Ok" /\ BeginPaint(last.obj)
    \/ \E p1 \in Points, p2 \in Points :
          /\ last.op = "DeviceContext::begin_paint" /\ last.res = "Ok"
          /\ DrawLine(last.obj, p1, p2)
    \/ last.op = "DeviceContext::draw_line" /\ DropDC(last.obj)
    \/ \E w \in Wins :
          /\ \/ last.op = "DeviceContext::drop"
             \/ /\ last.op \in {"Window::update", "DeviceContext::begin_paint"}
                /\ last.res # "Ok"
          /\ DropWindow(w)

ScnSpec == Init /\ [][ScnNext]_vars

\* =================================== the module handle (src/module.rs)
\* Each thread runs operations that use crate::MODULE_INFO; a frame of its
\* stack is [op, pc] with pc one of "deref", "init", "lock", "native".

\* Variant of once_may_enter without the Once: a thread that finds the
\* initialiser running starts it again.
once_may_enter_unsynchronised(state) == state \in {"incomplete", "running"}

\* lazy_static's Once: the initialiser is entered by the first thread that
\* dereferences the static, the others wait until it has completed.
once_may_enter(state) == state = "incomplete"

\* A thread starts Window::new, OwnedWindowClass::new or the unregistering
\* OwnedWindowClass::register: from idle, or from the window procedure that
\* CreateWindowExA calls synchronously on the thread inside Window::new.
ModCall(t, op) ==
    /\ LET st == thr[t].stack IN
          \/ st = <<>>
          \/ /\ st # <<>>
             /\ st[Len(st)] = [op |-> "Window::new", pc |-> "native"]
    /\ thr' = [thr EXCEPT ![t].stack = Append(@, [op |-> op, pc |-> "deref"])]
    /\ last' = Unit("call", t)
    /\ UNCHANGED <<winVars, dcVars, bmVars, drawVars, strVars, errVars,
                   clsVars, dropless, slot, module_info, poison, dcColor, trace>>

\* Deref of the lazy static MODULE_INFO
ModDeref(t) ==
    /\ thr[t].stack # <<>>
    /\ LET n == Len(thr[t].stack)
           f == thr[t].stack[n]
       IN /\ f.pc = "deref"
          /\ CASE module_info.once = "complete" ->
                    /\ thr' = [thr EXCEPT ![t].stack[n].pc = "lock"]
                    /\ UNCHANGED <<module_info, last>>
               [] module_info.once = "poisoned" ->
                    /\ thr' = [thr EXCEPT ![t].stack = <<>>]
                    /\ last' = Panic(f.op, t, "Once instance has previously been poisoned")
                    /\ UNCHANGED module_info
               [] OTHER ->
                    /\ once_may_enter(module_info.once)
                    /\ module_info' = [module_info EXCEPT !.once = "running",
                                                          !.by = t]
                    /\ thr' = [thr EXCEPT ![t].stack[n].pc = "init"]
                    /\ UNCHANGED last
    /\ UNCHANGED <<winVars, dcVars, bmVars, drawVars, strVars, errVars,
                   clsVars, dropless, slot, poison, dcColor, trace>>

\* ModuleInfo::new().expect("Unable to create module info"), run by the
\* thread that entered the initialiser; the handle's token is the number
\* of the run that produced it.
ModInit(t) ==
    /\ thr[t].stack # <<>>
    /\ LET n == Len(thr[t].stack)
           f == thr[t].stack[n]
       IN /\ f.pc = "init"
          /\ trace' = <<Call("GetModuleHandleExA", 0, 0)>>
          /\ \E found \in BOOLEAN :
                IF found
                THEN /\ module_info' =
                          [module_info EXCEPT !.once = "complete",
                                              !.runs = @ + 1,
                                              !.handle = module_info.runs + 1]
                     /\ thr' = [thr EXCEPT ![t].stack[n].pc = "lock"]
                     /\ last' = Ok("ModuleInfo::new", t, module_info.runs + 1, "")
                ELSE /\ module_info' =
                          [module_info EXCEPT !.once = "poisoned",
                                              !.runs = @ + 1]
                     /\ thr' = [thr EXCEPT ![t].stack = <<>>]
                     /\ last' = Panic(f.op, t, "Unable to create module info")
    /\ UNCHANGED <<winVars, dcVars, bmVars, drawVars, strVars, errVars,
                   clsVars, dropless, slot, poison, dcColor>>

\* crate::MODULE_INFO.lock().handle(): the lock is not reentrant, so the
\* step waits while any thread, this one included, holds it.
ModLock(t) ==
    /\ thr[t].stack # <<>>
    /\ LET n == Len(thr[t].stack) IN
          /\ thr[t].stack[n].pc = "lock"
          /\ module_info.lock = 0
          /\ module_info' = [module_info EXCEPT !.lock = t]
          /\ thr' = [thr EXCEPT ![t].stack[n].pc = "native",
                                ![t].seen = module_info.handle]
    /\ last' = Ok("ModuleInfo::handle", t, module_info.handle, "")
    /\ UNCHANGED <<winVars, dcVars, bmVars, drawVars, strVars, errVars,
                   clsVars, dropless, slot, poison, dcColor, trace>>

\* The native call the handle was an argument of returns; the lock guard,
\* a temporary of that statement, is released at the statement's end.
ModReturn(t) ==
    /\ thr[t].stack # <<>>
    /\ LET n == Len(thr[t].stack)
           f == thr[t].stack[n]
       IN /\ f.pc = "native"
          /\ trace' = <<Call(CASE f.op = "Window::new" -> "CreateWindowExA"
                               [] f.op = "OwnedWindowClass::new" -> "LoadCursorW"
                               [] OTHER -> "UnregisterClassA",
                             thr[t].seen, 0)>>
          /\ module_info' = [module_info EXCEPT !.lock = 0]
          /\ thr' = [thr EXCEPT ![t].stack = SubSeq(@, 1, n - 1)]
          /\ last' = Unit(f.op, t)
    /\ UNCHANGED <<winVars, dcVars, bmVars, drawVars, strVars, errVars,
                   clsVars, dropless, slot, poison, dcColor>>

ModNext ==
    \/ \E t \in 1..MaxThread,
          op \in {"Window::new", "OwnedWindowClass::new",
                  "OwnedWindowClass::register"} : ModCall(t, op)
    \/ \E t \in 1..MaxThread : ModDeref(t)
    \/ \E t \in 1..MaxThread : ModInit(t)
    \/ \E t \in 1..MaxThread : ModLock(t)
    \/ \E t \in 1..MaxThread : ModReturn(t)

ModSpec == Init /\ [][ModNext]_vars

\* The window and its user-data payload (src/window.rs).
WinNext ==
    \/ WindowNew
    \/ \E w \in Wins : WeakReference(w)
    \/ \E w \in Wins : WeakHwnd(w)
    \/ \E w \in Wins, T \in Types : SetUserDataBox(w, T)
    \/ \E w \in Wins, T \in Types : UserData(w, T)
    \/ \E w \in Wins, U \in Types : TakeUserData(w, U)
    \/ \E w \in Wins : DropWindow(w)

WinSpec == Init /\ [][WinNext]_vars

\* The size every bitmap has where the dimensions play no part.
UnitSize == <<1, 1>>

\* Attaching, reading and taking payloads on windows that stay alive
\* (src/window.rs).
UdNext ==
    \/ WindowNew
    \/ \E w \in Wins, T \in Types : SetUserDataBox(w, T)
    \/ \E w \in Wins, T \in Types : UserData(w, T)
    \/ \E w \in Wins, U \in Types : TakeUserData(w, U)

UdSpec == Init /\ [][UdNext]_vars

\* Device contexts and bitmaps over windows (src/dc.rs, src/bitmap.rs).
GdiNext ==
    \/ WindowNew
    \/ \E w \in Wins : DropWindow(w)
    \/ \E w \in Wins : BeginPaint(w)
    \/ \E d \in DCs : CreateCompatible(d)
    \/ \E d \in DCs, b \in Bitmaps : SetBitmap(d, b)
    \/ \E d \in DCs : DropDC(d)
    \/ \E b \in Bitmaps : DropBitmap(b)
    \/ \E d \in DCs : FromDcAndData(d, UnitSize, UnitSize)

GdiSpec == Init /\ [][GdiNext]_vars

\* Creation and release of every drawing resource (src/draw.rs,
\* src/dc.rs, src/bitmap.rs).
DrawNext ==
    \/ WindowNew
    \/ \E w \in Wins : BeginPaint(w)
    \/ \E d \in DCs : FromDcAndData(d, UnitSize, UnitSize)
    \/ \E b \in Bitmaps : DropBitmap(b)
    \/ PenNew
    \/ BrushSolid
    \/ \E i \in Pens : DropPen(i)
    \/ \E j \in Brushes : DropBrush(j)

DrawSpec == Init /\ [][DrawNext]_vars

\* Every creation operation, with the drops of DrawNext.
CreateNext ==
    \/ DrawNext
    \/ \E d \in DCs : CreateCompatible(d)

CreateSpec == Init /\ [][CreateNext]_vars

\* Bitmaps of every size, with the dimensions the platform gives them.
BmpNext ==
    \/ WindowNew
    \/ \E w \in Wins : BeginPaint(w)
    \/ \E d \in DCs, size \in Dims, reported \in Dims :
          FromDcAndData(d, size, reported)
    \/ \E b \in Bitmaps : DropBitmap(b)
    \/ \E b \in Bitmaps : PoisonLock(b)

BmpSpec == Init /\ [][BmpNext]_vars

\* The program once Window::new, Pen::new, Brush::solid and
\* DeviceContext::begin_paint have returned Ok: window 1, pen 1, brush 1
\* and the Painter DC 1 are alive.
DcInit ==
    /\ win = [w \in Wins |-> [st |-> IF w = 1 THEN "live" ELSE "free",
                              has_user_data |-> FALSE]]
    /\ userdata = [w \in Wins |-> NULL]
    /\ weaks = {}
    /\ pay = [p \in Payloads |-> [st |-> "free", ty |-> "unit", dtor |-> 0,
                                  w |-> 0]]
    /\ dc = [d \in DCs |->
               IF d = 1
               THEN [st |-> "live", kind |-> "Painter", owner |-> 1,
                     paint_struct |-> PAINTSTRUCT(1), old_object |-> None,
                     storage |-> None, companion |-> 0]
               ELSE [st |-> "free", kind |-> "Painter", owner |-> 0,
                     paint_struct |-> 0, old_object |-> None,
                     storage |-> None, companion |-> 0]]
    /\ selected = [d \in DCs |-> NULL]
    /\ dcDeleted = [d \in DCs |-> 0]
    /\ bm = [b \in Bitmaps |-> [st |-> "free", owning_dc |-> None,
                                bm |-> zeroed_BITMAP]]
    /\ hbm = [b \in Bitmaps |-> [created |-> FALSE, deleted |-> 0,
                                 size |-> <<0, 0>>, dims |-> <<0, 0>>]]
    /\ pen = [i \in Pens |-> [st |-> IF i = 1 THEN "live" ELSE "free"]]
    /\ brush = [j \in Brushes |-> [st |-> IF j = 1 THEN "live" ELSE "free"]]
    /\ gdiDeleted = [h \in {hpen(i) : i \in Pens} \cup
                           {hbrush(j) : j \in Brushes} |-> 0]
    /\ wstr = [kind |-> "none", inner |-> <<>>]
    /\ origin = NoOrigin
    /\ sres = [op |-> "init", arg |-> <<>>, res |-> "Ok", err |-> "", out |-> <<>>]
    /\ werr = [function |-> "", code |-> 0, text |-> <<>>, e |-> ErrorKind("")]
    /\ wclass = [st |-> "none", is_registered |-> FALSE]
    /\ cname = 0
    /\ atoms = {}
    /\ module_info = [once |-> "incomplete", by |-> 0, handle |-> NULL,
                      runs |-> 0, lock |-> 0]
    /\ thr = [t \in 1..MaxThread |-> [stack |-> <<>>, seen |-> NULL]]
    /\ poison = [b \in Bitmaps |-> FALSE]
    /\ dcColor = [d \in DCs |-> default_colors]
    /\ dropless = {}
    /\ slot = [held |-> [l \in HandleSlots |-> 0],
               run |-> [t \in 1..MaxThread |-> <<>>]]
    /\ last = Ok("DeviceContext::begin_paint", 1, 1, "")
    /\ trace = <<Call("BeginPaint", 1, 0)>>

\* Selections, drawing and copies on device contexts below a paint session
\* (src/dc.rs).
DcNext ==
    \/ \E d \in DCs : CreateCompatible(d)
    \/ \E d \in DCs : FromDcAndData(d, UnitSize, UnitSize)
    \/ \E d \in DCs, b \in Bitmaps : SetBitmap(d, b)
    \/ \E d \in DCs, i \in Pens : SetPen(d, i)
    \/ \E d \in DCs, j \in Brushes : SetBrush(d, j)
    \/ \E d \in DCs : DrawLine(d, <<0, 0>>, <<1, 1>>)
    \/ \E d, source \in DCs : CopyFrom(d, source)

DcSpec == DcInit /\ [][DcNext]_vars

\* Colours of the DC pen and the DC brush (src/dc.rs); the colours set
\* are red and blue.
ColNext ==
    \/ \E d \in DCs : CreateCompatible(d)
    \/ \E d \in DCs, c \in {<<255, 0, 0>>, <<0, 0, 255>>} :
          SetBrushColor(d, c[1], c[2], c[3])
    \/ \E d \in DCs, c \in {<<255, 0, 0>>, <<0, 0, 255>>} :
          SetPenColor(d, c[1], c[2], c[3])

ColSpec == DcInit /\ [][ColNext]_vars

\* A window class that is renamed and registered again, and windows
\* created meanwhile (src/window.rs).
ClsNext ==
    \/ \E name \in {1, 2, 3} : ClassNew(name)
    \/ \E name \in {1, 2, 3} : SetClassName(name)
    \/ Register
    \/ WindowNew

ClsSpec == Init /\ [][ClsNext]_vars

\* DroplessWindows next to the Window of the same handle (src/window.rs,
\* src/examples/basics.rs).
DlNext ==
    \/ WindowNew
    \/ \E w \in Wins : WeakReference(w)
    \/ \E w \in Wins, T \in Types : SetUserDataBox(w, T)
    \/ \E w \in Wins : DroplessNew(w)
    \/ \E w \in Wins : DropDropless(w)

DlSpec == Init /\ [][DlNext]_vars

\* ------------------------------------------------- handle-slot locks
\* The lock and unlock steps of an operation, in program order, as
\* <<"lock" | "unlock", slot>>; <<"store", <<d, b>>>> is set_bitmap's
\* assignment of old_object and storage.

\* Variant of copy_from_locks that keeps the guard of the destination while
\* it locks the source.
copy_from_locks_nested(d, source) ==
    <<<<"lock", <<"hdc", d>>>>, <<"lock", <<"hdc", source>>>>,
      <<"unlock", <<"hdc", source>>>>, <<"unlock", <<"hdc", d>>>>>>

\* DeviceContext::copy_from: self.hdc() and source.hdc() are evaluated one
\* after the other, and hdc() drops its guard before it returns.
copy_from_locks(d, source) ==
    <<<<"lock", <<"hdc", d>>>>, <<"unlock", <<"hdc", d>>>>,
      <<"lock", <<"hdc", source>>>>, <<"unlock", <<"hdc", source>>>>>>

\* <DeviceContext as Drop>::drop: the hdc guard lives to the end of drop;
\* inside it the owner's hwnd (Painter, when upgrade() gives Some) or the
\* old_object (OwnsGDIObject, when Some) is locked around the foreign call.
dc_drop_locks(d) ==
    LET inner == IF dc[d].kind = "Painter"
                 THEN IF upgrade(dc[d].owner).some
                      THEN <<<<"hwnd", upgrade(dc[d].owner).v>>>>
                      ELSE <<>>
                 ELSE IF dc[d].old_object.some
                      THEN <<<<"old_object", d>>>>
                      ELSE <<>>
    IN <<<<"lock", <<"hdc", d>>>>>>
          \o [i \in DOMAIN inner |-> <<"lock", inner[i]>>]
          \o [i \in DOMAIN inner |-> <<"unlock", inner[i]>>]
          \o <<<<"unlock", <<"hdc", d>>>>>>

\* The steps of each operation on the handle slots.
slot_steps(op, x, y) ==
    CASE op = "DeviceContext::hdc" ->
             <<<<"lock", <<"hdc", x>>>>, <<"unlock", <<"hdc", x>>>>>>
      [] op = "Bitmap::hbitmap" ->
             <<<<"lock", <<"hbitmap", x>>>>, <<"unlock", <<"hbitmap", x>>>>>>
      [] op = "Window::hwnd" ->
             <<<<"lock", <<"hwnd", x>>>>, <<"unlock", <<"hwnd", x>>>>>>
      [] op = "DeviceContext::copy_from" -> copy_from_locks(x, y)
      [] op = "DeviceContext::set_bitmap" ->
             \* the guard of self.hdc.lock() is a temporary of the statement
             \* that calls bitmap.hbitmap() and SelectObject
             IF set_bitmap_refusal(dc[x]) # "" THEN <<>>
             ELSE <<<<"lock", <<"hdc", x>>>>,
                    <<"lock", <<"hbitmap", y>>>>, <<"unlock", <<"hbitmap", y>>>>,
                    <<"unlock", <<"hdc", x>>>>, <<"store", <<x, y>>>>>>
      [] op = "DeviceContext::drop" -> dc_drop_locks(x)
      [] op = "Bitmap::drop" ->
             IF bitmap_drop_panics(bm[x].owning_dc) THEN <<>>
             ELSE dc_drop_locks(bm[x].owning_dc.v)
                     \o <<<<"lock", <<"hbitmap", x>>>>,
                          <<"unlock", <<"hbitmap", x>>>>>>

\* Thread t calls operation op on wrapper x (with argument y).  A dropped
\* value is moved into its drop.  Calls that take no lock (a refused
\* set_bitmap) are those of SetBitmap.  Any thread may call any operation
\* on any live wrapper: the borrow rules of the callers allow no more.
SlotCall(t, op, x, y) ==
    /\ slot.run[t] = <<>>
    /\ CASE op = "DeviceContext::hdc" -> dc[x].st = "live"
         [] op = "DeviceContext::drop" ->
                dc[x].st = "live" /\ dc[x].companion = 0
         [] op = "DeviceContext::copy_from" ->
                dc[x].st = "live" /\ dc[y].st = "live"
         [] op = "DeviceContext::set_bitmap" ->
                dc[x].st = "live" /\ dc[x].companion = 0 /\ bm[y].st = "live"
                    /\ ~poison[y]
         [] op \in {"Bitmap::hbitmap", "Bitmap::drop"} ->
                bm[x].st = "live" /\ ~poison[x]
         [] op = "Window::hwnd" -> win[x].st = "live"
    /\ slot_steps(op, x, y) # <<>>
    /\ slot' = [slot EXCEPT !.run[t] = slot_steps(op, x, y)]
    /\ dc' = CASE op = "DeviceContext::drop" -> [dc EXCEPT ![x].st = "dropped"]
               [] op = "Bitmap::drop" ->
                      [dc EXCEPT ![bm[x].owning_dc.v].st = "dropped"]
               [] OTHER -> dc
    /\ bm' = IF op = "Bitmap::drop"
             THEN [bm EXCEPT ![x].st = "dropped", ![x].owning_dc = None]
             ELSE bm
    /\ UNCHANGED <<winVars, selected, dcDeleted, hbm, drawVars, strVars,
                   errVars, clsVars, module_info, thr, poison, dcColor,
                   dropless, last, trace>>

\* Thread t takes the next step of its operation.  The locks are not
\* reentrant: lock() on a held slot waits, whoever holds it.
SlotStep(t) ==
    /\ slot.run[t] # <<>>
    /\ LET s == Head(slot.run[t]) IN
       CASE s[1] = "lock" ->
                /\ slot.held[s[2]] = 0
                /\ slot' = [slot EXCEPT !.held[s[2]] = t, !.run[t] = Tail(@)]
                /\ UNCHANGED <<dc, selected>>
         [] s[1] = "unlock" ->
                /\ slot' = [slot EXCEPT !.held[s[2]] = 0, !.run[t] = Tail(@)]
                /\ UNCHANGED <<dc, selected>>
         [] s[1] = "store" ->
                \E ok \in BOOLEAN :
                   /\ slot' = [slot EXCEPT !.run[t] = Tail(@)]
                   /\ dc' = [dc EXCEPT ![s[2][1]] =
                               set_bitmap_kind(@, SelectObject(s[2][1], ok),
                                               s[2][2])]
                   /\ selected' = IF ok
                                  THEN [selected EXCEPT ![s[2][1]] = s[2][2]]
                                  ELSE selected
    /\ UNCHANGED <<winVars, dcDeleted, bmVars, drawVars, strVars, errVars,
                   clsVars, module_info, thr, poison, dcColor, dropless,
                   last, trace>>

\* A paint session on window 1 (DC 1), bitmap 1 made from it (companion
\* DC 2) and an Empty compatible DC 3, no slot locked.
SlotInit ==
    /\ win = [w \in Wins |-> [st |-> IF w = 1 THEN "live" ELSE "free",
                              has_user_data |-> FALSE]]
    /\ userdata = [w \in Wins |-> NULL]
    /\ weaks = {}
    /\ pay = [p \in Payloads |-> [st |-> "free", ty |-> "unit", dtor |-> 0,
                                  w |-> 0]]
    /\ dc = [d \in DCs |->
               CASE d = 1 -> [st |-> "live", kind |-> "Painter", owner |-> 1,
                              paint_struct |-> PAINTSTRUCT(1),
                              old_object |-> None, storage |-> None,
                              companion |-> 0]
                 [] d = 2 -> set_bitmap_kind(compatible_dc(1), StockBitmap, 1)
                 [] d = 3 -> compatible_dc(0)
                 [] OTHER -> [st |-> "free", kind |-> "Painter", owner |-> 0,
                              paint_struct |-> 0, old_object |-> None,
                              storage |-> None, companion |-> 0]]
    /\ selected = [d \in DCs |-> CASE d = 2 -> 1 [] d = 3 -> StockBitmap
                                   [] OTHER -> NULL]
    /\ dcDeleted = [d \in DCs |-> 0]
    /\ bm = [b \in Bitmaps |->
               IF b = 1
               THEN [st |-> "live", owning_dc |-> Some(2),
                     bm |-> from_dc_and_data_bm(UnitSize,
                                                GetObjectW(1, UnitSize))]
               ELSE [st |-> "free", owning_dc |-> None, bm |-> zeroed_BITMAP]]
    /\ hbm = [b \in Bitmaps |-> [created |-> b = 1, deleted |-> 0,
                                 size |-> IF b = 1 THEN UnitSize ELSE <<0, 0>>,
                                 dims |-> IF b = 1 THEN UnitSize ELSE <<0, 0>>]]
    /\ pen = [i \in Pens |-> [st |-> "free"]]
    /\ brush = [j \in Brushes |-> [st |-> "free"]]
    /\ gdiDeleted = [h \in {hpen(i) : i \in Pens} \cup
                           {hbrush(j) : j \in Brushes} |-> 0]
    /\ wstr = [kind |-> "none", inner |-> <<>>]
    /\ origin = NoOrigin
    /\ sres = [op |-> "init", arg |-> <<>>, res |-> "Ok", err |-> "", out |-> <<>>]
    /\ werr = [function |-> "", code |-> 0, text |-> <<>>, e |-> ErrorKind("")]
    /\ wclass = [st |-> "none", is_registered |-> FALSE]
    /\ cname = 0
    /\ atoms = {}
    /\ module_info = [once |-> "incomplete", by |-> 0, handle |-> NULL,
                      runs |-> 0, lock |-> 0]
    /\ thr = [t \in 1..MaxThread |-> [stack |-> <<>>, seen |-> NULL]]
    /\ poison = [b \in Bitmaps |-> FALSE]
    /\ dcColor = [d \in DCs |-> default_colors]
    /\ dropless = {}
    /\ slot = [held |-> [l \in HandleSlots |-> 0],
               run |-> [t \in 1..MaxThread |-> <<>>]]
    /\ last = Ok("DeviceContext::create_compatible", 3, 3, "")
    /\ trace = <<Call("CreateCompatibleDC", 1, 0)>>

\* Threads on the handle slots of windows, device contexts and bitmaps
\* (src/dc.rs, src/bitmap.rs).
SlotNext ==
    \/ \E t \in 1..MaxThread, d \in DCs : SlotCall(t, "DeviceContext::hdc", d, 0)
    \/ \E t \in 1..MaxThread, d \in DCs, source \in DCs :
          SlotCall(t, "DeviceContext::copy_from", d, source)
    \/ \E t \in 1..MaxThread, d \in DCs, b \in Bitmaps :
          SlotCall(t, "DeviceContext::set_bitmap", d, b)
    \/ \E t \in 1..MaxThread, d \in DCs : SlotCall(t, "DeviceContext::drop", d, 0)
    \/ \E t \in 1..MaxThread, b \in Bitmaps : SlotCall(t, "Bitmap::drop", b, 0)
    \/ \E t \in 1..MaxThread, b \in Bitmaps : SlotCall(t, "Bitmap::hbitmap", b, 0)
    \/ \E t \in 1..MaxThread, w \in Wins : SlotCall(t, "Window::hwnd", w, 0)
    \/ \E t \in 1..MaxThread : SlotStep(t)

SlotSpec == SlotInit /\ [][SlotNext]_vars

Next ==
    WinNext \/ GdiNext \/ DrawNext \/ BmpNext \/ StrNext \/ ErrNext \/ ScnNext
        \/ ModNext \/ DcNext \/ UdNext \/ ColNext \/ ClsNext \/ DlNext \/ SlotNext

Spec == Init /\ [][Next]_vars

\* ================================================================ claims

\* C1: a WeakWindow of Window w yields w's handle while w is alive, and once
\* w has been dropped every use of it returns Err(ExpiredWeakPtr) instead
\* of panicking.
C1_WeakUseFailsWithExpiredWeakPtr ==
    last.op = "WeakWindow::hwnd" =>
        IF win[last.obj].st = "live"
        THEN last.res = "Ok" /\ last.val = last.obj
        ELSE last.res = "Err" /\ last.err = "ExpiredWeakPtr"

\* C2: set_bitmap on a Painter DC returns Err(NoGDIStorage) and on a
\* Compatible DC that already records a selection Err(AlreadyHadGDIStorage);
\* either way it makes no foreign call and leaves old_object, storage and
\* the platform's selection as they were.
C2_SetBitmapRefused ==
    [][\A d \in DCs :
         (/\ last'.op = "DeviceContext::set_bitmap"
          /\ last'.obj = d
          /\ (dc[d].kind = "Painter" \/ dc[d].storage.some))
         => /\ last'.res = "Err"
            /\ last'.err = IF dc[d].kind = "Painter"
                           THEN "NoGDIStorage" ELSE "AlreadyHadGDIStorage"
            /\ trace' = <<>>
            /\ dc'[d] = dc[d]
            /\ selected' = selected]_vars

\* C2 witness: a set_bitmap was refused on an Occupied Compatible DC.
C2_Witness ==
    /\ last.op = "DeviceContext::set_bitmap"
    /\ last.err = "AlreadyHadGDIStorage"
    /\ dc[last.obj].kind = "OwnsGDIObject"
    /\ dc[last.obj].storage.some

\* C3: dropping a fully constructed Bitmap restores the companion DC's old
\* object, deletes the companion DC, and only then calls DeleteObject on the
\* bitmap handle; each release call is made once.
C3_CompanionDcBeforeBitmapHandle ==
    (last.op = "Bitmap::drop" /\ last.res = "Unit") =>
        \E d \in DCs :
            /\ dc[d].companion = last.obj
            /\ dc[d].st = "dropped"
            /\ Count(trace, "DeleteDC", d) = 1
            /\ Count(trace, "DeleteObject", last.obj) = 1
            /\ LastIndex(trace, "DeleteDC", d)
                 < LastIndex(trace, "DeleteObject", last.obj)
            /\ dc[d].old_object.some =>
                 /\ Count(trace, "SelectObject", d) = 1
                 /\ trace[LastIndex(trace, "SelectObject", d)].a
                      = dc[d].old_object.v
                 /\ LastIndex(trace, "SelectObject", d)
                      < LastIndex(trace, "DeleteDC", d)
            /\ dcDeleted[d] = 1
            /\ hbm[last.obj].deleted = 1

\* C3 witness: a Bitmap built by from_dc_and_data has been dropped.
C3_Witness ==
    /\ last.op = "Bitmap::drop"
    /\ last.res = "Unit"
    /\ hbm[last.obj].created
    /\ hbm[last.obj].deleted = 1

\* C4: when from_dc_and_data fails after CreateBitmap returned a handle, the
\* handle has been released by exactly one DeleteObject and the failure is
\* returned as an error.
C4_NoLeakOnPartialConstruction ==
    (/\ last.op = "Bitmap::from_dc_and_data"
     /\ last.res # "Ok"
     /\ last.obj # 0)
    => /\ last.res = "Err"
       /\ hbm[last.obj].deleted = 1

\* C5: no teardown panics, the drop of the partially constructed Bitmap on
\* a failure path of from_dc_and_data included.
C5_TeardownNeverPanics ==
    last.op \in {"Bitmap::drop", "DeviceContext::drop", "Window::drop",
                 "Bitmap::from_dc_and_data"}
    => last.res # "Panic"

\* C6: take_user_data::<T>() on a window whose attached payload is a box of
\* type T returns Ok with that box and leaves the window without payload.
C6_PayloadRoundTrip ==
    [][\A w \in Wins :
         (/\ last'.op = "Window::take_user_data"
          /\ last'.obj = w
          /\ last' \notin win32_error("Window::take_user_data", w,
                                     "SetWindowLongPtrA")
          /\ win[w].has_user_data
          /\ userdata[w] # NULL
          /\ pay[userdata[w]].ty = last'.ty)
         => /\ last'.res = "Ok"
            /\ last'.val = userdata[w]
            /\ userdata'[w] = NULL
            /\ ~win'[w].has_user_data]_vars

\* C7: take_user_data::<U>() on a window whose attached payload has a type
\* other than U returns the downcast-failure error, never Ok.
C7_DowncastMismatchFails ==
    [][\A w \in Wins :
         (/\ last'.op = "Window::take_user_data"
          /\ last'.obj = w
          /\ last' \notin win32_error("Window::take_user_data", w,
                                     "SetWindowLongPtrA")
          /\ win[w].has_user_data
          /\ userdata[w] # NULL
          /\ pay[userdata[w]].ty # last'.ty)
         => /\ last'.res = "Err"
            /\ last'.err = "StaticMsg"]_vars

\* C8: once a Window has been dropped, every payload that was attached to
\* it has been reclaimed exactly once: its destructor ran once, or its box
\* was handed back to the caller with its own type.
C8_PayloadReclaimedExactlyOnce ==
    \A w \in Wins : win[w].st = "dropped" =>
        \A p \in Payloads : pay[p].w = w =>
            \/ pay[p].st = "freed" /\ pay[p].dtor = 1
            \/ pay[p].st = "boxed" /\ pay[p].dtor = 0

\* C9: the drop of a Window ends by destroying the native window handle.
C9_DropDestroysHandle ==
    last.op = "Window::drop" =>
        /\ Count(trace, "DestroyWindow", last.obj) = 1
        /\ trace[Len(trace)].f = "DestroyWindow"

\* C10: dropping a Painter DC calls EndPaint once, on the owning window and
\* with the paint struct of begin_paint, iff the owner still upgrades, and
\* makes no foreign call otherwise; DeleteDC never reaches a Painter DC.
C10_PainterDrop ==
    /\ \A d \in DCs : dc[d].kind = "Painter" => dcDeleted[d] = 0
    /\ (last.op = "DeviceContext::drop" /\ dc[last.obj].kind = "Painter") =>
          IF win[dc[last.obj].owner].st = "live"
          THEN trace = <<Call("EndPaint", dc[last.obj].owner,
                              PAINTSTRUCT(last.obj))>>
          ELSE trace = <<>>

\* C10 witness: a Painter DC was dropped after its owning window.
C10_Witness ==
    /\ last.op = "DeviceContext::drop"
    /\ dc[last.obj].kind = "Painter"
    /\ win[dc[last.obj].owner].st = "dropped"
    /\ trace = <<>>

\* C11: dropping a Compatible DC selects old_object back into the DC, when
\* one is recorded, before the single DeleteDC on its handle, and calls
\* only DeleteDC when none is recorded; it never calls EndPaint.
C11_CompatibleDrop ==
    (last.op = "DeviceContext::drop" /\ dc[last.obj].kind = "OwnsGDIObject") =>
        LET d == last.obj IN
        /\ Count(trace, "DeleteDC", d) = 1
        /\ LastIndex(trace, "DeleteDC", d) = Len(trace)
        /\ \A i \in DOMAIN trace : trace[i].f # "EndPaint"
        /\ IF dc[d].old_object.some
           THEN /\ Len(trace) = 2
                /\ trace[1] = Call("SelectObject", d, dc[d].old_object.v)
           ELSE Len(trace) = 1

\* C11 witness: a Compatible DC that recorded an old object was dropped.
C11_Witness ==
    /\ last.op = "DeviceContext::drop"
    /\ dc[last.obj].kind = "OwnsGDIObject"
    /\ dc[last.obj].old_object.some
    /\ dcDeleted[last.obj] = 1

C19_DimensionsAsReported ==
    \A b \in Bitmaps :
        bm[b].st = "live" =>
            width(b) = hbm[b].dims[1] /\ height(b) = hbm[b].dims[2]

C19_Witness ==
    \E b \in Bitmaps :
        /\ bm[b].st = "live"
        /\ hbm[b].dims # hbm[b].size
        /\ width(b) = hbm[b].dims[1] /\ height(b) = hbm[b].dims[2]
        /\ last.op # "Bitmap::from_dc_and_data"

\* C13: a string of scalar values without a null converts to a WString, and
\* both into_string() and into_string_lossy() of it give back exactly the
\* string it was made from.
C13_RoundTrip ==
    /\ (sres.op = "WString::try_from" /\ ~any_zero(sres.arg)) => sres.res = "Ok"
    /\ (origin.some /\ sres.op \in {"WStr::into_string", "WStr::into_string_lossy"})
          => sres.res = "Ok" /\ sres.out = origin.v

C13_Witness ==
    /\ origin.some /\ sres.op = "WStr::into_string"
    /\ Len(origin.v) = MaxLen /\ \E i \in DOMAIN origin.v : origin.v[i] > 65535
    /\ Len(sres.arg) > Len(origin.v) + 1
    /\ sres.out = origin.v

\* C14: WString::new fails with WideStringNul exactly when its input holds
\* a null code unit at any position, and otherwise builds the buffer that
\* is the input followed by one null.
C14_NewRejectsAnyNull ==
    sres.op = "WString::new" =>
        IF \E i \in DOMAIN sres.arg : sres.arg[i] = 0
        THEN sres.res = "Err" /\ sres.err = "WideStringNul" /\ wstr.kind = "none"
        ELSE /\ sres.res = "Ok"
             /\ wstr = WStringOf(sres.arg \o <<0>>)
             /\ sres.out = sres.arg \o <<0>>

C14_Witness ==
    /\ sres.op = "WString::new" /\ Len(sres.arg) >= 2
    /\ sres.arg[1] = 0 /\ sres.arg[Len(sres.arg)] # 0
    /\ sres.res = "Err" /\ sres.err = "WideStringNul"

\* C15: WStr::from_bytes succeeds exactly when the last element of the
\* slice is a null and no other element is; otherwise it fails with
\* WideStringNul.
C15_FromBytesNeedsTerminator ==
    sres.op = "WStr::from_bytes" =>
        LET n == Len(sres.arg)
            terminated == /\ n >= 1
                          /\ sres.arg[n] = 0
                          /\ \A i \in 1..(n - 1) : sres.arg[i] # 0
        IN /\ sres.res = "Ok" <=> terminated
           /\ sres.res # "Ok" => sres.res = "Err" /\ sres.err = "WideStringNul"

\* C16: every wide string the program can hold ends in a null and holds no
\* other null, and taking its units without the null never indexes out of
\* range.
C16_NullTerminated ==
    /\ wstr.kind # "none" =>
          /\ Len(wstr.inner) >= 1
          /\ wstr.inner[Len(wstr.inner)] = 0
          /\ \A i \in 1..(Len(wstr.inner) - 1) : wstr.inner[i] # 0
    /\ sres.res # "Panic"

\* C17: whatever GetLastError and the message lookup give, win32_error(op)
\* returns a Win32 error with that code and the tag op; when the lookup
\* fails or its text cannot be made into a message, the message is the
\* fixed fallback, and no WideStringNul or Utf16 error is returned instead.
C17_AlwaysWin32 ==
    werr.function # "" =>
        /\ werr.e.kind = "Win32"
        /\ werr.e.code = werr.code
        /\ werr.e.function = werr.function
        /\ (werr.code # 0 /\ (Len(werr.text) = 0 \/ any_zero(werr.text)))
              => werr.e.message = FixedMessage("No error message detected")

\* C18: a creation operation (Window::new, begin_paint, create_compatible,
\* from_dc_and_data, Pen::new, Brush::solid) either returns Ok with a new
\* live wrapper holding the token of the native call, or, exactly when the
\* native creation call returned null, returns a Win32 error tagged with
\* that call and creates nothing.
C18_CreationOkOrTaggedError ==
    [][last'.op \in {"Window::new", "DeviceContext::begin_paint",
                     "DeviceContext::create_compatible",
                     "Bitmap::from_dc_and_data", "Pen::new", "Brush::solid"}
       => IF last'.res = "Ok"
          THEN LET x == last'.obj IN
               CASE last'.op = "Window::new" ->
                        win[x].st = "free" /\ win'[x].st = "live" /\ last'.val = x
                 [] last'.op = "Bitmap::from_dc_and_data" ->
                        bm[x].st = "free" /\ bm'[x].st = "live" /\ last'.val = x
                 [] last'.op = "Pen::new" ->
                        pen[x].st = "free" /\ pen'[x].st = "live"
                        /\ last'.val = hpen(x)
                 [] last'.op = "Brush::solid" ->
                        brush[x].st = "free" /\ brush'[x].st = "live"
                        /\ last'.val = hbrush(x)
                 [] OTHER ->
                        dc[x].st = "free" /\ dc'[x].st = "live" /\ last'.val = x
          ELSE /\ last'.res = "Err" /\ last'.err = "Win32"
               /\ last'.fn = trace'[Len(trace')].f
               /\ Len(trace') = 1
               /\ UNCHANGED <<win, dc, bm, hbm, pen, brush>>]_vars

\* C20: in the scenario (register the class, create the window, show,
\* update, begin_paint, draw_line, drop the DC, drop the window) a step that
\* follows an Ok step can itself return Ok; a creation step whose native
\* call returns null returns the Win32 error tagged with that call; and
\* after a step that returned an error nothing runs but the drops of what
\* was created.
C20_Scenario ==
    [][/\ (last.res \in {"Ok", "Unit"} /\ ENABLED ScnNext)
             => ENABLED (ScnNext /\ last'.res \in {"Ok", "Unit"})
       /\ (/\ last'.op \in {"Window::new", "DeviceContext::begin_paint"}
           /\ last'.res # "Ok")
             => /\ last'.res = "Err" /\ last'.err = "Win32"
                /\ last'.fn = trace'[Len(trace')].f
                /\ UNCHANGED <<win, dc>>
       /\ last.res \notin {"Ok", "Unit"}
             => last'.op \in {"DeviceContext::drop", "Window::drop"}]_vars

\* ------------------------------------------ the module handle, threads

\* C21: however the threads interleave their first uses of MODULE_INFO,
\* ModuleInfo::new runs at most once, every thread that has read the
\* handle read the one handle MODULE_INFO holds, and a thread is between
\* reading the handle and the end of the statement that used it only while
\* it holds the MODULE_INFO lock.
C21_ModuleHandleCreatedOnce ==
    /\ module_info.runs <= 1
    /\ \A t \in 1..MaxThread :
          /\ thr[t].seen # NULL => thr[t].seen = module_info.handle
          /\ \A i \in DOMAIN thr[t].stack :
                thr[t].stack[i].pc = "native" => module_info.lock = t

\* Every thread has read the handle, one of them without having run the
\* initialiser itself.
C21_Witness ==
    /\ module_info.runs = 1
    /\ module_info.handle # NULL
    /\ \A t \in 1..MaxThread : thr[t].seen = module_info.handle
    /\ \E t \in 1..MaxThread : t # module_info.by

\* C22: no thread ever waits for the MODULE_INFO lock while it is itself
\* the holder of that lock (an operation started from the window procedure
\* during Window::new could then never complete).
C22_NoSelfWait ==
    \A t \in 1..MaxThread :
       ~ /\ thr[t].stack # <<>>
         /\ thr[t].stack[Len(thr[t].stack)].pc = "lock"
         /\ module_info.lock = t

\* ------------------------------------------- compatible device contexts

C24_OccupiedStaysOccupied ==
    [][\A d \in DCs :
          (dc[d].st = "live" /\ dc[d].kind = "OwnsGDIObject"
              /\ (dc[d].old_object.some \/ dc[d].storage.some))
          => /\ dc'[d].st = "live"
             /\ dc'[d].old_object = dc[d].old_object
             /\ dc'[d].storage = dc[d].storage]_vars

\* set_bitmap was refused on an Occupied DC of the caller.
C24_Witness ==
    /\ last.op = "DeviceContext::set_bitmap"
    /\ last.err = "AlreadyHadGDIStorage"
    /\ dc[last.obj].st = "live"
    /\ dc[last.obj].old_object.some /\ dc[last.obj].storage.some

\* C25: create_compatible that returns Ok adds one Compatible DC that is
\* Empty and changes no other wrapper; and dropping any device context
\* makes DeleteDC / SelectObject calls on its own handle only and leaves
\* every other device context, and what the platform records for it, as
\* it was.
C25_CreateCompatibleIndependent ==
    [][/\ (last'.op = "DeviceContext::create_compatible" /\ last'.res = "Ok")
          => LET d == last'.obj IN
             /\ dc[d].st = "free"
             /\ dc'[d].st = "live" /\ dc'[d].kind = "OwnsGDIObject"
             /\ dc'[d].old_object = None /\ dc'[d].storage = None
             /\ \A e \in DCs \ {d} : dc'[e] = dc[e]
       /\ last'.op = "DeviceContext::drop"
          => LET d == last'.obj IN
             /\ \A i \in DOMAIN trace' :
                   trace'[i].f \in {"SelectObject", "DeleteDC"}
                       => trace'[i].h = d
             /\ \A e \in DCs \ {d} :
                   /\ dc'[e] = dc[e]
                   /\ dcDeleted'[e] = dcDeleted[e]
                   /\ selected'[e] = selected[e]]_vars

\* A Painter DC was dropped while an Empty Compatible DC created below a
\* paint session is alive and its handle has received no DeleteDC.
C25_Witness ==
    /\ last.op = "DeviceContext::drop"
    /\ dc[last.obj].kind = "Painter"
    /\ \E e \in DCs :
          /\ dc[e].st = "live" /\ dc[e].kind = "OwnsGDIObject"
          /\ dc[e].companion = 0
          /\ dc[e].old_object = None /\ dc[e].storage = None
          /\ dcDeleted[e] = 0

\* C26: set_pen and set_brush make one SelectObject call with the pen's or
\* brush's handle on the DC and change no wrapper; on an Empty Compatible
\* DC a set_bitmap that follows is not refused.
C26_SetPenBrushFrame ==
    [][/\ last'.op \in {"DeviceContext::set_pen", "DeviceContext::set_brush"}
          => /\ Len(trace') = 1
             /\ trace'[1].f = "SelectObject" /\ trace'[1].h = last'.obj
             /\ trace'[1].a \in
                   IF last'.op = "DeviceContext::set_pen"
                   THEN {hpen(i) : i \in {k \in Pens : pen[k].st = "live"}}
                   ELSE {hbrush(j) : j \in {k \in Brushes : brush[k].st = "live"}}
             /\ UNCHANGED <<dc, selected, bm, pen, brush>>
       /\ (/\ last.op \in {"DeviceContext::set_pen", "DeviceContext::set_brush"}
           /\ last'.op = "DeviceContext::set_bitmap"
           /\ last'.obj = last.obj
           /\ dc[last.obj].kind = "OwnsGDIObject")
          => (last'.res = "Ok"
                 <=> ~dc[last.obj].old_object.some
                        /\ ~dc[last.obj].storage.some)]_vars

\* set_brush was called on an Empty Compatible DC of the caller while a
\* bitmap that set_bitmap could select is alive.
C26_Witness ==
    /\ last.op = "DeviceContext::set_brush"
    /\ dc[last.obj].kind = "OwnsGDIObject" /\ dc[last.obj].companion = 0
    /\ dc[last.obj].old_object = None /\ dc[last.obj].storage = None
    /\ \E b \in Bitmaps : bm[b].st = "live"

\* ---------------------------------------------- the user-data slot

\* C27: set_user_data_box is refused only when the platform call itself
\* fails, whatever the slot holds; when it returns Ok the platform slot
\* holds the new payload and has_user_data is true, and a user_data or a
\* take_user_data that comes next on the window and reads the slot is
\* about that payload.
C27_LastWriteWins ==
    [][/\ last'.op = "Window::set_user_data_box"
          => LET w == last'.obj IN
             IF last'.res = "Ok"
             THEN /\ pay[last'.val].st = "free"
                  /\ userdata'[w] = last'.val
                  /\ win'[w].has_user_data
             ELSE userdata'[w] = userdata[w]
       /\ (/\ last.op = "Window::set_user_data_box" /\ last.res = "Ok"
           /\ last'.op \in {"Window::user_data", "Window::take_user_data"}
           /\ last'.obj = last.obj
           /\ last'.fn = "" /\ last'.err \in {"", "StaticMsg"})
          => last'.val = last.val]_vars

\* A second payload was attached while the first was still in the slot.
C27_Witness ==
    /\ last.op = "Window::set_user_data_box"
    /\ last.res = "Ok"
    /\ userdata[last.obj] = last.val
    /\ win[last.obj].has_user_data
    /\ \E p \in Payloads \ {last.val} :
          pay[p].st = "raw" /\ pay[p].w = last.obj

\* C28: user_data makes one GetWindowLongPtrA call and changes neither the
\* platform slot nor the wrapper nor any payload; when it returns Ok the
\* reference is to the payload in the slot, so right after a
\* set_user_data_box it is the payload just attached, and a repeated call
\* gives the same; and a payload it has read is reclaimed by the
\* take_user_data or the teardown that comes next on the window.
C28_UserDataPureRead ==
    [][/\ last'.op = "Window::user_data"
          => /\ trace' = <<Call("GetWindowLongPtrA", last'.obj, 0)>>
             /\ UNCHANGED <<win, userdata, pay>>
             /\ last'.res = "Ok" => last'.val = userdata[last'.obj]
             /\ (/\ last.op \in {"Window::set_user_data_box", "Window::user_data"}
                 /\ last.res = "Ok" /\ last.obj = last'.obj
                 /\ last'.res = "Ok")
                => last'.val = last.val
       /\ (/\ last.op = "Window::user_data" /\ last.res = "Ok"
           /\ last.ty = pay[last.val].ty
           /\ \/ last'.op = "Window::drop"
              \/ last'.op = "Window::take_user_data" /\ last'.ty = last.ty
                    /\ last'.val = last.val
           /\ last'.obj = last.obj)
          => /\ pay'[last.val].st \in {"boxed", "freed"}
             /\ pay'[last.val].st = "freed" => pay'[last.val].dtor = 1]_vars

\* ------------------------------------------------- poisoned handle lock

\* C29: dropping a Bitmap whose handle-slot lock is poisoned does not
\* panic: the companion DC is torn down as usual and no DeleteObject is
\* made on the bitmap handle; with a sound lock the handle is deleted by
\* one DeleteObject.
C29_PoisonedDropSkipsRelease ==
    last.op = "Bitmap::drop" =>
        LET b == last.obj IN
        /\ last.res = "Unit"
        /\ bm[b].st = "dropped"
        /\ \E d \in DCs : /\ dc[d].companion = b /\ dc[d].st = "dropped"
                          /\ Count(trace, "DeleteDC", d) = 1
        /\ Count(trace, "DeleteObject", b) = (IF poison[b] THEN 0 ELSE 1)
        /\ hbm[b].deleted = (IF poison[b] THEN 0 ELSE 1)

\* A Bitmap with a poisoned lock was dropped.
C29_Witness ==
    /\ last.op = "Bitmap::drop"
    /\ poison[last.obj]
    /\ last.res = "Unit"
    /\ hbm[last.obj].created

\* ------------------------------------------------------ DC colours

\* C30: a set_pen_color that returns Ok has made the DC's pen colour the
\* RGB value it was given and left the brush colour as it was; a
\* set_brush_color that returns Ok has made the brush colour that value
\* and left the pen colour as it was; and the tag of the Win32 error
\* either of them returns is the native call it made.
C30_ColourSetters ==
    [][/\ (last'.op = "DeviceContext::set_pen_color" /\ last'.res = "Ok")
          => /\ dcColor'[last'.obj].pen = last'.val
             /\ dcColor'[last'.obj].brush = dcColor[last'.obj].brush
       /\ (last'.op = "DeviceContext::set_brush_color" /\ last'.res = "Ok")
          => /\ dcColor'[last'.obj].brush = last'.val
             /\ dcColor'[last'.obj].pen = dcColor[last'.obj].pen
       /\ (/\ last'.op \in {"DeviceContext::set_pen_color",
                            "DeviceContext::set_brush_color"}
           /\ last'.res = "Err" /\ last'.fn # "")
          => last'.fn = trace'[1].f]_vars

\* ------------------------------------------------------------ draw_line

\* C31: draw_line(p1, p2) on a DC calls MoveToEx with p1 first and, only
\* when that succeeded, LineTo with p2, both on the DC's handle; it
\* returns Ok when both succeeded and otherwise the Win32 error tagged
\* with the call that failed (MoveToEx when LineTo was not issued).
C31_DrawLineOrder ==
    [][last'.op = "DeviceContext::draw_line"
          => LET d == last'.obj IN
             /\ Len(trace') \in {1, 2}
             /\ trace'[1].f = "MoveToEx" /\ trace'[1].h = d
             /\ Len(trace') = 2
                   => /\ trace'[2].f = "LineTo" /\ trace'[2].h = d
                      /\ \E p1 \in Points, p2 \in Points :
                            /\ trace'[1].a = PointArg(p1)
                            /\ trace'[2].a = PointArg(p2)
             /\ last'.res = "Ok" => Len(trace') = 2
             /\ last'.res # "Ok"
                   => /\ last'.res = "Err" /\ last'.err = "Win32"
                      /\ last'.fn = trace'[Len(trace')].f]_vars

\* ------------------------------------------------------ window classes

\* C32: after any sequence of register and set_class_name calls, a
\* register on a wrapper whose is_registered is true first calls
\* UnregisterClassA for the class the platform has registered and, when
\* that succeeded, RegisterClassExA; it returns Ok exactly when it leaves
\* is_registered true; and is_registered is true only while the platform
\* has the wrapper's class registered.
C32_ReRegister ==
    [][/\ (last'.op = "OwnedWindowClass::register" /\ wclass.is_registered)
          => /\ trace'[1].f = "UnregisterClassA"
             /\ trace'[1].a \in atoms
             /\ Len(trace') = 2 => trace'[2].f = "RegisterClassExA"
             /\ last'.res = "Ok" <=> (Len(trace') = 2 /\ wclass'.is_registered)
       /\ wclass'.is_registered => cname' \in atoms']_vars

\* ------------------------------------------------------ DroplessWindow

\* C33: creating a DroplessWindow for a window handle and dropping it make
\* no foreign call and change neither the Window wrapper of that handle
\* (its liveness, on which its weak references depend, and has_user_data)
\* nor the platform's user-data slot nor any payload.
C33_DroplessIsInert ==
    [][last'.op \in {"DroplessWindow::new", "DroplessWindow::drop"}
          => /\ trace' = <<>>
             /\ UNCHANGED <<win, userdata, weaks, pay>>]_vars

\* A DroplessWindow was dropped for the handle of a live Window that has
\* a payload attached and a weak reference handed out.
C33_Witness ==
    /\ last.op = "DroplessWindow::drop"
    /\ win[last.obj].st = "live"
    /\ win[last.obj].has_user_data
    /\ userdata[last.obj] # NULL
    /\ pay[userdata[last.obj]].st = "raw"
    /\ last.obj \in weaks

\* C34: for every WString w, WString::from_raw(w.into_raw()) equals w: the
\* same code units, the single trailing null included, in a buffer of the
\* same length.
C34_RawRoundTrip ==
    sres.op = "WString::from_raw" =>
        /\ sres.out = sres.arg
        /\ Len(sres.out) = Len(sres.arg)
        /\ wstr = WStringOf(sres.arg)

\* C35: when the message lookup succeeds and writes n >= 1 code units of
\* valid UTF-16 with no null among them, the error built by win32_error is
\* a Win32 error whose message is exactly those n units decoded, none
\* dropped and none added.
C35_MessageIsWholeText ==
    (/\ werr.function # ""
     /\ werr.code # 0
     /\ Len(werr.text) >= 1
     /\ ~any_zero(werr.text)
     /\ from_utf16(werr.text).ok)
        => /\ werr.e.kind = "Win32"
           /\ werr.e.message = Message(from_utf16(werr.text).text)

\* C36: when take_user_data returns a Win32 error, the payload state is
\* what it was before the call: has_user_data keeps its value, so that a
\* payload still attached is reclaimed by the teardown of the Window.
C36_FailedTakeKeepsPayloadState ==
    [][(last'.op = "Window::take_user_data" /\ last'.res = "Err"
           /\ last'.err = "Win32")
          => /\ win'[last'.obj].has_user_data = win[last'.obj].has_user_data
             /\ UNCHANGED <<userdata, pay>>]_vars

\* C37: take_user_data on a Window whose user-data slot is zero never
\* rebuilds an owned Box from the zero slot value: it returns the error of
\* the platform call (the only return taken before Box::from_raw) and
\* leaves has_user_data false.
C37_NoBoxFromZeroSlot ==
    [][(last'.op = "Window::take_user_data" /\ userdata[last'.obj] = NULL)
          => /\ last'.res = "Err"
             /\ last'.err # "StaticMsg"
             /\ ~win'[last'.obj].has_user_data]_vars

\* C38: for every Compatible DC, in every reachable state, old_object is
\* present exactly when storage is: both are absent until the first
\* set_bitmap on it that returns Ok, and both are present from then on.
C38_OldObjectIffStorage ==
    [][\A d \in DCs :
          (dc'[d].st # "free" /\ dc'[d].kind = "OwnsGDIObject") =>
             /\ dc'[d].old_object.some <=> dc'[d].storage.some
             /\ (dc[d].st # "free" /\ dc[d].old_object.some)
                    => dc'[d].old_object.some
             /\ (dc[d].st # "free" /\ dc[d].companion = 0
                    /\ ~dc[d].old_object.some /\ dc'[d].old_object.some)
                    => /\ last'.op = "DeviceContext::set_bitmap"
                       /\ last'.obj = d /\ last'.res = "Ok"
             /\ (last'.op = "DeviceContext::set_bitmap" /\ last'.obj = d
                    /\ last'.res = "Ok")
                    => dc'[d].old_object.some]_vars

\* set_bitmap returned Ok on an Empty Compatible DC of the caller although
\* the platform refused the selection: both fields are present.
C38_Witness ==
    /\ last.op = "DeviceContext::set_bitmap" /\ last.res = "Ok"
    /\ dc[last.obj].kind = "OwnsGDIObject"
    /\ dc[last.obj].old_object = Some(NULL)
    /\ dc[last.obj].storage.some
    /\ bm[dc[last.obj].storage.v].st = "live"
    /\ selected[last.obj] = StockBitmap

\* C39: a bitmap handle is never deleted while a live device context
\* records it as its selection: when Bitmap::drop calls DeleteObject on the
\* handle, every device context whose storage refers to the bitmap has
\* been torn down.
C39_NoDeleteWhileSelected ==
    \A b \in Bitmaps :
        (/\ last.op = "Bitmap::drop" /\ last.obj = b
         /\ \E i \in DOMAIN trace : trace[i] = Call("DeleteObject", b, 0))
        => \A d \in DCs : dc[d].storage = Some(b) => dc[d].st # "live"

\* C40: no deadlock on the handle-slot locks.  Whatever operations the
\* threads run (device-context teardown, set_bitmap, copy_from with any
\* source, Bitmap teardown, the handle accessors), no set of threads waits
\* in a circle, an operation that holds a slot never locks it again, and
\* the order is the same everywhere: a thread that locks a slot while it
\* holds another holds an hdc slot and locks a slot of another kind.
C40_NoSlotDeadlock ==
    LET waits(t) == slot.run[t] # <<>> /\ Head(slot.run[t])[1] = "lock"
        wanted(t) == Head(slot.run[t])[2]
    IN /\ ~\E D \in (SUBSET (1..MaxThread)) \ {{}} :
              \A t \in D : waits(t) /\ slot.held[wanted(t)] \in D
       /\ \A t \in 1..MaxThread, l \in HandleSlots :
              (slot.held[l] = t /\ waits(t))
              => l[1] = "hdc" /\ wanted(t)[1] # "hdc"

\* A thread inside set_bitmap or a device-context teardown holds an hdc
\* slot and waits for a slot that another thread holds.
C40_Witness ==
    \E t \in 1..MaxThread, u \in 1..MaxThread :
       /\ t # u
       /\ slot.run[t] # <<>> /\ Head(slot.run[t])[1] = "lock"
       /\ slot.held[Head(slot.run[t])[2]] = u
       /\ \E l \in HandleSlots : slot.held[l] = t

====
